---- MODULE Spec2Model ----
(***************************************************************************)
(* Model of the favicon service (github.com/wajeht/favicon, main.go):      *)
(* the cache repository, the edge handlers handleHome and handleHealthz,   *)
(* and the concurrent resolver fetchFaviconsParallel with its probe tasks. *)
(*                                                                         *)
(* Strings are TLA+ strings; Len, \o and SubSeq act on them character by   *)
(* character.  Time is counted in hours.  Image bytes are records that     *)
(* carry what the code looks at: the real format of the bytes, the image   *)
(* dimensions, the byte length and the byte length of the 16x16            *)
(* re-encoding.                                                            *)
(***************************************************************************)
EXTENDS Integers, Sequences, FiniteSets, Bags, TLC

\* ------------------------------------------------------------------ bounds
MaxClock == 30          \* the clock stops advancing after this many hours
MaxInFlight == 2        \* requests that may be between cache miss and answer
NumCand == 3            \* candidate URLs of one resolver run
MaxTailLen == 2         \* length of the enumerated part of an address

\* ------------------------------------------------------- program constants
TTLHours == 24          \* datetime('now', '+24 hours')
CleanupPeriodHours == 6 \* time.NewTicker(6 * time.Hour)
ResultChanCap == 10     \* make(chan FaviconResult, 10)
MaxBodyBytes == 1048576 \* io.LimitReader(resp.Body, 1024*1024)
IconSize == 16          \* image.Rect(0, 0, 16, 16)

\* ---------------------------------------------------------- string helpers
CharAt(s, i) == SubSeq(s, i, i)

HasPrefix(s, p) == Len(s) >= Len(p) /\ SubSeq(s, 1, Len(p)) = p

HasSuffix(s, p) == Len(s) >= Len(p) /\ SubSeq(s, Len(s) - Len(p) + 1, Len(s)) = p

Contains(s, sub) == \E i \in 1..(Len(s) - Len(sub) + 1) : SubSeq(s, i, i + Len(sub) - 1) = sub

\* strings.IndexByte: 0-based index of the first c in s, -1 when absent
IndexByte(s, c) ==
    IF \E i \in 1..Len(s) : CharAt(s, i) = c
    THEN (CHOOSE i \in 1..Len(s) : CharAt(s, i) = c /\ \A j \in 1..(i-1) : CharAt(s, j) # c) - 1
    ELSE -1

UpperChars == "ABCDEFGHIJKLMNOPQRSTUVWXYZ"
LowerChars == "abcdefghijklmnopqrstuvwxyz"

LowerChar(c) ==
    IF \E k \in 1..26 : CharAt(UpperChars, k) = c
    THEN CharAt(LowerChars, CHOOSE k \in 1..26 : CharAt(UpperChars, k) = c)
    ELSE c

RECURSIVE ToLower(_)
ToLower(s) == IF s = "" THEN "" ELSE LowerChar(CharAt(s, 1)) \o ToLower(Tail(s))

\* -------------------------------------------------------- address normalizer
\* faulty variant: the port is not cut off
extractDomain_KeepsPort(rawURL) ==
    LET u1 == IF Len(rawURL) > 8 /\ SubSeq(rawURL, 1, 8) = "https://" THEN SubSeq(rawURL, 9, Len(rawURL))
              ELSE IF Len(rawURL) > 7 /\ SubSeq(rawURL, 1, 7) = "http://" THEN SubSeq(rawURL, 8, Len(rawURL))
              ELSE rawURL
        slashIndex == IndexByte(u1, "/")
        u2 == IF slashIndex # -1 THEN SubSeq(u1, 1, slashIndex) ELSE u1
    IN  IF u2 = "" THEN rawURL ELSE ToLower(u2)

\* faulty variant: the three cuts are alternatives (else if), one per call
extractDomain_OneCutPerCall(rawURL) ==
    LET slashIndex == IndexByte(rawURL, "/")
        colonIndex == IndexByte(rawURL, ":")
        u == IF Len(rawURL) > 8 /\ SubSeq(rawURL, 1, 8) = "https://" THEN SubSeq(rawURL, 9, Len(rawURL))
             ELSE IF Len(rawURL) > 7 /\ SubSeq(rawURL, 1, 7) = "http://" THEN SubSeq(rawURL, 8, Len(rawURL))
             ELSE IF slashIndex # -1 THEN SubSeq(rawURL, 1, slashIndex)
             ELSE IF colonIndex # -1 THEN SubSeq(rawURL, 1, colonIndex)
             ELSE rawURL
    IN  IF u = "" THEN rawURL ELSE ToLower(u)

extractDomain(rawURL) ==
    LET u1 == IF Len(rawURL) > 8 /\ SubSeq(rawURL, 1, 8) = "https://" THEN SubSeq(rawURL, 9, Len(rawURL))
              ELSE IF Len(rawURL) > 7 /\ SubSeq(rawURL, 1, 7) = "http://" THEN SubSeq(rawURL, 8, Len(rawURL))
              ELSE rawURL
        slashIndex == IndexByte(u1, "/")
        u2 == IF slashIndex # -1 THEN SubSeq(u1, 1, slashIndex) ELSE u1
        colonIndex == IndexByte(u2, ":")
        u3 == IF colonIndex # -1 THEN SubSeq(u2, 1, colonIndex) ELSE u2
    IN  IF u3 = "" THEN rawURL ELSE ToLower(u3)

\* --------------------------------------------------------- candidate generator
\* faulty variant: the apple-touch-icon group comes before the favicon.ico group
getFaviconURLs_AppleFirst(baseURL) ==
    << << baseURL \o "/apple-touch-icon.png",
          baseURL \o "/apple-touch-icon-precomposed.png" >>,
       << baseURL \o "/favicon.ico",
          baseURL \o "/favicon.png" >>,
       << baseURL \o "/apple-touch-icon-180x180.png",
          baseURL \o "/apple-touch-icon-152x152.png",
          baseURL \o "/apple-touch-icon-120x120.png" >> >>

getFaviconURLs(baseURL) ==
    << << baseURL \o "/favicon.ico",
          baseURL \o "/favicon.png" >>,
       << baseURL \o "/apple-touch-icon.png",
          baseURL \o "/apple-touch-icon-precomposed.png" >>,
       << baseURL \o "/apple-touch-icon-180x180.png",
          baseURL \o "/apple-touch-icon-152x152.png",
          baseURL \o "/apple-touch-icon-120x120.png" >> >>

RECURSIVE Flatten(_)
Flatten(groups) == IF groups = << >> THEN << >> ELSE Head(groups) \o Flatten(Tail(groups))

Range(f) == { f[i] : i \in DOMAIN f }

\* ------------------------------------------------------------- image bytes
\* fmt is the real format of the bytes, whole says the bytes are a complete
\* file, w and h are the image dimensions, len the number of bytes and enc
\* the number of bytes of the image's 16x16 re-encoding.
Bytes(tag, fmt, w, h, len, enc) ==
    [tag |-> tag, fmt |-> fmt, whole |-> TRUE, w |-> w, h |-> h, len |-> len, enc |-> enc]

TextBody(s) == Bytes(s, "text", 0, 0, Len(s), 0)

NoBody == TextBody("")

\* assets.Embeddedfiles "static/favicon.ico", bundled at build time
DefaultIcon == Bytes("default", "ico", 16, 16, 1150, 1150)

\* ------------------------------------------------------------ content types
SplitFirst(s, sep) == IF IndexByte(s, sep) = -1 THEN s ELSE SubSeq(s, 1, IndexByte(s, sep))

ImageTypes ==
    { "image/x-icon", "image/vnd.microsoft.icon", "image/icon", "image/ico",
      "image/png", "image/jpeg", "image/jpg", "image/gif",
      "image/svg+xml", "image/webp" }

\* faulty variant: the content type is compared as sent, not lowercased
isImage_CaseSensitive(contentType) ==
    IF contentType = "" THEN FALSE
    ELSE SplitFirst(contentType, ";") \in ImageTypes

isImage(contentType) ==
    IF contentType = "" THEN FALSE
    ELSE ToLower(SplitFirst(contentType, ";")) \in ImageTypes

getContentType(url, respContentType) ==
    IF respContentType # "" THEN respContentType
    ELSE IF HasSuffix(url, ".png") THEN "image/png"
    ELSE "image/x-icon"

\* ---------------------------------------------------------- image normalizer
\* png.Decode / jpeg.Decode succeed on complete bytes of their own format
Decodes(data, fmt) == data.fmt = fmt /\ data.whole

\* png.Encode / jpeg.Encode of the 16x16 destination image
Encode16(data, fmt) ==
    [tag |-> data.tag, fmt |-> fmt, whole |-> TRUE, w |-> IconSize, h |-> IconSize,
     len |-> data.enc, enc |-> data.enc]

\* png.Encode / jpeg.Encode return an error: enc < 0 stands for bytes whose
\* 16x16 image cannot be encoded
EncodeFails(data) == data.enc < 0

\* faulty variant: an image of exactly 16x16 is re-encoded
resizeImage_Below16(data, contentType) ==
    LET isPng == Contains(contentType, "png")
        isJpeg == Contains(contentType, "jpeg") \/ Contains(contentType, "jpg")
        decoder == IF isPng THEN "png" ELSE "jpeg"
        buf == Encode16(data, decoder)
    IN  IF ~isPng /\ ~isJpeg THEN data
        ELSE IF ~Decodes(data, decoder) THEN data
        ELSE IF data.w < IconSize /\ data.h < IconSize THEN data
        ELSE IF EncodeFails(data) THEN data
        ELSE IF buf.len < data.len THEN buf
        ELSE data

\* faulty variant: a re-encoding as long as the input is returned
resizeImage_NotStrict(data, contentType) ==
    LET isPng == Contains(contentType, "png")
        isJpeg == Contains(contentType, "jpeg") \/ Contains(contentType, "jpg")
        decoder == IF isPng THEN "png" ELSE "jpeg"
        buf == Encode16(data, decoder)
    IN  IF ~isPng /\ ~isJpeg THEN data
        ELSE IF ~Decodes(data, decoder) THEN data
        ELSE IF data.w <= IconSize /\ data.h <= IconSize THEN data
        ELSE IF EncodeFails(data) THEN data
        ELSE IF buf.len <= data.len THEN buf
        ELSE data

\* resizeImage: the bytes it returns (the error it returns is always nil)
\* faulty variant: the re-encoding is returned whatever its length
resizeImage_AlwaysReencodes(data, contentType) ==
    LET isPng == Contains(contentType, "png")
        isJpeg == Contains(contentType, "jpeg") \/ Contains(contentType, "jpg")
        decoder == IF isPng THEN "png" ELSE "jpeg"
        buf == Encode16(data, decoder)
    IN  IF ~isPng /\ ~isJpeg THEN data
        ELSE IF ~Decodes(data, decoder) THEN data
        ELSE IF data.w <= IconSize /\ data.h <= IconSize THEN data
        ELSE IF EncodeFails(data) THEN data
        ELSE buf

resizeImage(data, contentType) ==
    LET isPng == Contains(contentType, "png")
        isJpeg == Contains(contentType, "jpeg") \/ Contains(contentType, "jpg")
        decoder == IF isPng THEN "png" ELSE "jpeg"
        buf == Encode16(data, decoder)
    IN  IF ~isPng /\ ~isJpeg THEN data
        ELSE IF ~Decodes(data, decoder) THEN data
        ELSE IF data.w <= IconSize /\ data.h <= IconSize THEN data
        ELSE IF EncodeFails(data) THEN data
        ELSE IF buf.len < data.len THEN buf
        ELSE data

\* ------------------------------------------------------------ markup probe
\* strings.Index: 0-based index of the first sub in s, -1 when absent
Index(s, sub) ==
    IF Contains(s, sub)
    THEN (CHOOSE i \in 1..(Len(s) - Len(sub) + 1) :
            /\ SubSeq(s, i, i + Len(sub) - 1) = sub
            /\ \A j \in 1..(i - 1) : SubSeq(s, j, j + Len(sub) - 1) # sub) - 1
    ELSE -1

\* strings.TrimSpace, for blanks
RECURSIVE TrimSpace(_)
TrimSpace(s) ==
    IF s = "" THEN ""
    ELSE IF Head(s) = " " THEN TrimSpace(Tail(s))
    ELSE IF CharAt(s, Len(s)) = " " THEN TrimSpace(SubSeq(s, 1, Len(s) - 1))
    ELSE s

\* rel values that mention an icon without being an icon link
NonIconRels == { "preload", "modulepreload", "dns-prefetch", "preconnect", "prefetch" }

\* the value of the quoted rel attribute of a <link ...> tag, lowercased and
\* trimmed; found is FALSE when the tag has no quoted rel attribute
relAttribute(tag, quotes) ==
    LET lower == ToLower(tag)
        i == Index(lower, "rel=")
        q == IF i # -1 /\ i + 5 <= Len(lower) THEN CharAt(lower, i + 5) ELSE ""
        rest == IF q \in quotes THEN SubSeq(lower, i + 6, Len(lower)) ELSE ""
        j == IndexByte(rest, q)
    IN  IF q \notin quotes \/ j = -1 THEN [found |-> FALSE, value |-> ""]
        ELSE [found |-> TRUE, value |-> TrimSpace(SubSeq(rest, 1, j))]

\* faulty variant: only a double-quoted rel attribute is recognised
isIconLink_DoubleQuotesOnly(tag) ==
    LET rel == relAttribute(tag, { "\"" })
    IN  /\ rel.found
        /\ Contains(rel.value, "icon")
        /\ \A x \in NonIconRels : ~Contains(rel.value, x)

isIconLink(tag) ==
    LET rel == relAttribute(tag, { "\"", "'" })
    IN  /\ rel.found
        /\ Contains(rel.value, "icon")
        /\ \A x \in NonIconRels : ~Contains(rel.value, x)

\* ------------------------------------------------------------------- probe
\* What the remote origin does with one GET: net is "ok" or "error"
\* (connect failure, client timeout), readErr a failure while reading the body.
OriginReply(net, status, ctype, body, readErr) ==
    [net |-> net, status |-> status, ctype |-> ctype, body |-> body, readErr |-> readErr]

\* io.LimitReader(resp.Body, 1024*1024): the bytes past the cap are not read
LimitRead(body) ==
    IF body.len > MaxBodyBytes THEN [body EXCEPT !.len = MaxBodyBytes, !.whole = FALSE] ELSE body

FaviconResult(data, contentType, url, error) ==
    [Data |-> data, ContentType |-> contentType, URL |-> url, Error |-> error]

\* ctxDone: the scope is already cancelled when the request is issued
fetchFavicon(ctxDone, url, reply) ==
    IF ctxDone \/ reply.net # "ok" THEN FaviconResult(NoBody, "", url, "request failed")
    ELSE IF reply.status # 200 THEN FaviconResult(NoBody, "", url, "status")
    ELSE IF ~isImage(reply.ctype) THEN FaviconResult(NoBody, "", url, "not an image")
    ELSE IF reply.readErr THEN FaviconResult(NoBody, "", url, "read failed")
    ELSE FaviconResult(resizeImage(LimitRead(reply.body), reply.ctype),
                       getContentType(url, reply.ctype), url, "")

\* -------------------------------------------------------------- repository
\* faulty variant: the row expires at the moment it is saved
Row_ExpiresAtSave(domain, data, contentType, t) ==
    [domain |-> domain, data |-> data, content_type |-> contentType,
     created_at |-> t, expires_at |-> t]

\* One row of table favicons; times in hours.
Row(domain, data, contentType, t) ==
    [domain |-> domain, data |-> data, content_type |-> contentType,
     created_at |-> t, expires_at |-> t + TTLHours]

\* faulty variant: a row is still returned at the instant it expires
RepoGet_Inclusive(rows, domain, t, dbErr) ==
    LET hits == { r \in rows : r.domain = domain /\ r.expires_at >= t }
    IN  IF dbErr THEN [err |-> "db error", data |-> NoBody, contentType |-> ""]
        ELSE IF hits = {} THEN [err |-> "sql: no rows in result set", data |-> NoBody, contentType |-> ""]
        ELSE LET r == CHOOSE r \in hits : TRUE
             IN  [err |-> "", data |-> r.data, contentType |-> r.content_type]

\* SELECT data, content_type FROM favicons WHERE domain = ? AND expires_at > CURRENT_TIMESTAMP
\* dbErr: the query fails for a reason other than "no rows"
RepoGet(rows, domain, t, dbErr) ==
    LET hits == { r \in rows : r.domain = domain /\ r.expires_at > t }
    IN  IF dbErr THEN [err |-> "db error", data |-> NoBody, contentType |-> ""]
        ELSE IF hits = {} THEN [err |-> "sql: no rows in result set", data |-> NoBody, contentType |-> ""]
        ELSE LET r == CHOOSE r \in hits : TRUE
             IN  [err |-> "", data |-> r.data, contentType |-> r.content_type]

\* faulty variant: a plain INSERT into a table without the UNIQUE constraint
RepoSave_NoReplace(rows, domain, data, contentType, t, dbErr) ==
    IF dbErr THEN rows ELSE rows \cup { Row(domain, data, contentType, t) }

\* faulty variant: INSERT OR IGNORE, the row already stored for the domain wins
RepoSave_Ignore(rows, domain, data, contentType, t, dbErr) ==
    IF dbErr \/ \E r \in rows : r.domain = domain THEN rows
    ELSE rows \cup { Row(domain, data, contentType, t) }

\* faulty variant: on a conflict only the data column is overwritten
RepoSave_DataOnly(rows, domain, data, contentType, t, dbErr) ==
    IF dbErr THEN rows
    ELSE IF \E r \in rows : r.domain = domain
    THEN { r \in rows : r.domain # domain }
         \cup { Row(domain, data, r.content_type, t) : r \in { r \in rows : r.domain = domain } }
    ELSE rows \cup { Row(domain, data, contentType, t) }

\* INSERT OR REPLACE INTO favicons ... VALUES (?, ?, ?, datetime('now', '+24 hours'))
\* domain is UNIQUE: the conflicting row is deleted before the insert
RepoSave(rows, domain, data, contentType, t, dbErr) ==
    IF dbErr THEN rows
    ELSE { r \in rows : r.domain # domain } \cup { Row(domain, data, contentType, t) }

\* faulty variant: a row whose expiry is exactly now is not deleted
RepoCleanupExpired_Strict(rows, t) == { r \in rows : ~(r.expires_at < t) }

\* DELETE FROM favicons WHERE expires_at <= CURRENT_TIMESTAMP
RepoCleanupExpired(rows, t) == { r \in rows : ~(r.expires_at <= t) }

\* ------------------------------------------------------------ edge handler
\* The response as the handler hands it to the http.ResponseWriter: status 0
\* means nothing written yet, logged that handleServerError logged an error.
EmptyResponse == [status |-> 0, headers |-> << >>, body |-> NoBody, logged |-> FALSE]

SetHeader(rsp, name, value) ==
    [rsp EXCEPT !.headers = (name :> value) @@ rsp.headers]

HasHeader(rsp, name) == name \in DOMAIN rsp.headers

\* http.Error(w, msg, code)
HttpError(rsp, msg, code) ==
    [SetHeader(SetHeader(rsp, "Content-Type", "text/plain; charset=utf-8"),
               "X-Content-Type-Options", "nosniff")
     EXCEPT !.status = code, !.body = TextBody(msg \o "\n")]

\* w.WriteHeader(code)
WriteHeader(rsp, code) == IF rsp.status = 0 THEN [rsp EXCEPT !.status = code] ELSE rsp

\* faulty variant: the error is also written to the client, as http.Error would
handleServerError_Writes500(rsp) == [rsp EXCEPT !.logged = TRUE, !.status = 500]

handleServerError(rsp) == [rsp EXCEPT !.logged = TRUE]

\* w.Write(data) / io.Copy(w, file), then the handler's `if err != nil`:
\* the first write sends status 200 unless a status was written before
WriteBody(rsp, data, writeErr) ==
    LET sent == [WriteHeader(rsp, 200) EXCEPT !.body = data]
    IN  IF writeErr THEN handleServerError(sent) ELSE sent

\* fmt.Sprintf(`"fav-%s"`, domain)
ETag(domain) == "\"fav-" \o domain \o "\""

\* faulty variant: the weak form of the validator is not recognised
ETagMatches_StrongOnly(clientETag, etag) == clientETag = etag

ETagMatches(clientETag, etag) == clientETag = etag \/ clientETag = "W/" \o etag

\* rawURL as handleHome completes it before extractDomain
WithScheme(rawURL) ==
    IF ~HasPrefix(rawURL, "http://") /\ ~HasPrefix(rawURL, "https://")
    THEN "https://" \o rawURL ELSE rawURL

\* faulty variant: the missing address is answered like a found page
BadRequestResponse_Ok ==
    [HttpError(EmptyResponse, "Missing 'url' query parameter. Usage: /?url=<url>", 400) EXCEPT !.status = 200]

BadRequestResponse ==
    HttpError(EmptyResponse, "Missing 'url' query parameter. Usage: /?url=<url>", 400)

NotModifiedResponse == WriteHeader(EmptyResponse, 304)

\* faulty variant: the stored content type is not served
HitResponse_FixedType(domain, data, contentType, writeErr) ==
    LET rsp == SetHeader(SetHeader(SetHeader(SetHeader(EmptyResponse,
                  "Content-Type", "image/x-icon"),
                  "Cache-Control", "public, max-age=86400, immutable"),
                  "ETag", "\"fav-" \o domain \o "\""),
                  "X-Cache", "HIT")
    IN  [rsp EXCEPT !.status = 200, !.body = data, !.logged = writeErr]

\* faulty variant: the ETag names the cached bytes as well as the host
HitResponse_ContentETag(domain, data, contentType, writeErr) ==
    WriteBody(SetHeader(SetHeader(SetHeader(SetHeader(EmptyResponse,
                  "Content-Type", contentType),
                  "Cache-Control", "public, max-age=86400, immutable"),
                  "ETag", "\"fav-" \o domain \o "-" \o data.tag \o "\""),
                  "X-Cache", "HIT"),
              data, writeErr)

HitResponse(domain, data, contentType, writeErr) ==
    WriteBody(SetHeader(SetHeader(SetHeader(SetHeader(EmptyResponse,
                  "Content-Type", contentType),
                  "Cache-Control", "public, max-age=86400, immutable"),
                  "ETag", ETag(domain)),
                  "X-Cache", "HIT"),
              data, writeErr)

MissResponse(result, writeErr) ==
    WriteBody(SetHeader(SetHeader(SetHeader(EmptyResponse,
                  "Content-Type", result.ContentType),
                  "Cache-Control", "public, max-age=86400"),
                  "X-Cache", "MISS"),
              result.Data, writeErr)

\* faulty variant: total failure is answered as not found
DefaultResponse_NotFound(writeErr) ==
    [status |-> 404, headers |-> ("Content-Type" :> "text/plain; charset=utf-8"),
     body |-> TextBody("The requested resource could not be found\n"), logged |-> FALSE]

DefaultResponse(writeErr) ==
    WriteBody(SetHeader(SetHeader(SetHeader(EmptyResponse,
                  "Content-Type", "image/x-icon"),
                  "Cache-Control", "public, max-age=86400"),
                  "X-Cache", "DEFAULT"),
              DefaultIcon, writeErr)

\* faulty variant: the result of Ping is ignored
HealthzResponse_AlwaysOk(pingErr) ==
    [status |-> 200, headers |-> << >>, body |-> TextBody("ok"), logged |-> FALSE]

\* handleHealthz: the Content-Type set after WriteHeader is not sent
HealthzResponse(pingErr) ==
    IF pingErr THEN HttpError(EmptyResponse, "Database connection failed", 503)
    ELSE [WriteHeader(EmptyResponse, 200) EXCEPT !.body = TextBody("ok")]

\* ------------------------------------------------------------ model inputs
RawURLs == { "", "a.io", "https://A.io:8080/x", "http://b.io" }

IfNoneMatches == { "", ETag("a.io"), "W/" \o ETag("a.io") }

Png64 == Bytes("png64", "png", 64, 64, 5000, 900)
Ico16 == Bytes("ico16", "ico", 16, 16, 318, 318)

Html == TextBody("<html>")

\* bodies around the read cap of fetchFavicon: one byte more than the cap
\* (a PNG and an ICO) and exactly the cap
PngOversize == Bytes("pngOver", "png", 512, 512, MaxBodyBytes + 1, 900)
IcoOversize == Bytes("icoOver", "ico", 256, 256, MaxBodyBytes + 1, 318)
PngAtCap == Bytes("pngCap", "png", 512, 512, MaxBodyBytes, 900)

\* what the remote origin may answer to a GET of a candidate URL
RepliesFor(url) ==
    IF HasSuffix(url, "/favicon.ico")
    THEN { OriginReply("ok", 200, "image/x-icon", Ico16, FALSE),
           OriginReply("ok", 404, "text/html", Html, FALSE),
           OriginReply("error", 0, "", NoBody, FALSE) }
    ELSE IF HasSuffix(url, "/apple-touch-icon.png")
    THEN { OriginReply("ok", 200, "image/png", Png64, FALSE),
           OriginReply("ok", 200, "image/png", Png64, TRUE),
           OriginReply("ok", 200, "text/html; charset=utf-8", Html, FALSE) }
    ELSE { OriginReply("ok", 404, "text/html", Html, FALSE),
           OriginReply("error", 0, "", NoBody, FALSE) }

\* the nil *FaviconResult
NilResult == FaviconResult(NoBody, "", "", "nil")

\* What fetchFaviconsParallel(urlGroups, ..) can return: nil, or the result of
\* one candidate whose probe succeeded.
ResolverOutcomes(groups) ==
    LET probes == UNION { { fetchFavicon(FALSE, u, reply) : reply \in RepliesFor(u) } : u \in Range(Flatten(groups)) }
    IN  { res : res \in { NilResult } \cup { p \in probes : p.Error = "" } }

\* the pure functions above, tabulated once over the model inputs
Tabulated(pairs) == [ k \in { p[1] : p \in pairs } |-> (CHOOSE p \in pairs : p[1] = k)[2] ]

Domains == { extractDomain(WithScheme(u)) : u \in RawURLs \ { "" } }

DomainPairs == { << u, extractDomain(WithScheme(u)) >> : u \in RawURLs }

DomainOf == Tabulated(DomainPairs)

OutcomePairs == { << d, ResolverOutcomes(getFaviconURLs("https://" \o d)) >> : d \in Domains }

OutcomesOf == Tabulated(OutcomePairs)

ValidatorPairs == { << d, { m \in IfNoneMatches : ETagMatches(m, ETag(d)) } >> : d \in Domains }

Validates == Tabulated(ValidatorPairs)

\* -------------------------------------------------------------------- state
\* fetchFaviconsParallel as a call: its timeout argument (in milliseconds),
\* where the caller stands and what was returned
Run(state, timeout, result) == [state |-> state, timeout |-> timeout, result |-> result]

NoRun == Run("idle", 0, NilResult)

VARIABLES
    favicons,     \* rows of table favicons
    now,          \* CURRENT_TIMESTAMP, in hours
    inflight,     \* bag of handleHome requests between cache miss and answer
    resp,         \* the latest answered request and its response
    urlGroups,    \* fetchFaviconsParallel: the candidate groups of the run
    task,         \* per candidate: position of its goroutine
    held,         \* per candidate: the result its goroutine holds
    resultChan,   \* buffered channel, in send order
    chanClosed,   \* close(resultChan) has run
    ctx,          \* "live", "canceled" or "deadline"
    ret,          \* what fetchFaviconsParallel returned, if it has
    published     \* every send on resultChan, in send order

storeVars == << favicons, now, inflight, resp >>
runVars == << urlGroups, task, held, resultChan, chanClosed, ctx, ret, published >>
vars == << favicons, now, inflight, resp, urlGroups, task, held, resultChan, chanClosed, ctx, ret, published >>

\* inm is the If-None-Match header, NotRead while the handler has not read it
NotRead == "(not read)"

Request(kind, url, inm) == [kind |-> kind, url |-> url, inm |-> inm]

NoRequest == Request("none", "", NotRead)

Answered(req, domain, calls, rsp) ==
    [req |-> req, domain |-> domain, calls |-> calls, rsp |-> rsp]

Init ==
    /\ favicons = {}
    /\ now = 0
    /\ inflight = EmptyBag
    /\ resp = Answered(NoRequest, "", << >>, EmptyResponse)
    /\ urlGroups = << >>
    /\ task = << >>
    /\ held = << >>
    /\ resultChan = << >>
    /\ chanClosed = FALSE
    /\ ctx = "live"
    /\ ret = NoRun
    /\ published = << >>

\* ----------------------------------------------------------------- actions
\* faulty variant: a hit saves the entry again, which restarts its expiry
HomeLookup_SavesOnHit(rawURL0, clientETag, getErr, writeErr) ==
    LET domain == DomainOf[rawURL0]
        got == RepoGet(favicons, domain, now, getErr)
    IN  /\ UNCHANGED now
        /\ UNCHANGED runVars
        /\ IF rawURL0 = ""
           THEN /\ resp' = Answered(Request("home", rawURL0, NotRead), "", << >>, BadRequestResponse)
                /\ UNCHANGED << favicons, inflight >>
           ELSE IF got.err = ""
           THEN /\ resp' = Answered(Request("home", rawURL0, clientETag), domain, << "Get" >>,
                               IF clientETag \in Validates[domain]
                               THEN NotModifiedResponse
                               ELSE HitResponse(domain, got.data, got.contentType, writeErr))
                /\ favicons' = RepoSave(favicons, domain, got.data, got.contentType, now, FALSE)
                /\ UNCHANGED inflight
           ELSE /\ BagCardinality(inflight) < MaxInFlight
                /\ inflight' = inflight (+) SetToBag({ Request("home", rawURL0, NotRead) })
                /\ UNCHANGED << favicons, resp >>

\* handleHome up to the cache lookup: 400, 304, HIT, or a miss that goes on
\* to the resolver.  If-None-Match is read in the hit branch only.
HomeLookup(rawURL0, clientETag, getErr, writeErr) ==
    LET domain == DomainOf[rawURL0]
        got == RepoGet(favicons, domain, now, getErr)
    IN  /\ UNCHANGED << favicons, now >>
        /\ UNCHANGED runVars
        /\ IF rawURL0 = ""
           THEN /\ resp' = Answered(Request("home", rawURL0, NotRead), "", << >>, BadRequestResponse)
                /\ UNCHANGED inflight
           ELSE IF got.err = ""
           THEN /\ resp' = Answered(Request("home", rawURL0, clientETag), domain, << "Get" >>,
                               IF clientETag \in Validates[domain]
                               THEN NotModifiedResponse
                               ELSE HitResponse(domain, got.data, got.contentType, writeErr))
                /\ UNCHANGED inflight
           ELSE /\ BagCardinality(inflight) < MaxInFlight
                /\ inflight' = inflight (+) SetToBag({ Request("home", rawURL0, NotRead) })
                /\ UNCHANGED resp

\* faulty variant: the default icon is saved when the resolver found nothing
HomeResolve_SavesDefault(req, result, saveErr, writeErr) ==
    LET domain == DomainOf[req.url]
    IN  /\ BagIn(req, inflight)
        /\ result \in OutcomesOf[domain]
        /\ inflight' = inflight (-) SetToBag({ req })
        /\ UNCHANGED now
        /\ UNCHANGED runVars
        /\ IF result # NilResult
           THEN /\ favicons' = RepoSave(favicons, domain, result.Data, result.ContentType, now, saveErr)
                /\ resp' = Answered(req, domain, << "Get", "fetchFaviconsParallel", "Save" >>,
                                    MissResponse(result, writeErr))
           ELSE /\ favicons' = RepoSave(favicons, domain, DefaultIcon, "image/x-icon", now, saveErr)
                /\ resp' = Answered(req, domain, << "Get", "fetchFaviconsParallel" >>,
                                    DefaultResponse(writeErr))

\* handleHome from the resolver's return on: Save and MISS, or DEFAULT.
HomeResolve(req, result, saveErr, writeErr) ==
    LET domain == DomainOf[req.url]
    IN  /\ BagIn(req, inflight)
        /\ result \in OutcomesOf[domain]
        /\ inflight' = inflight (-) SetToBag({ req })
        /\ UNCHANGED now
        /\ UNCHANGED runVars
        /\ IF result # NilResult
           THEN /\ favicons' = RepoSave(favicons, domain, result.Data, result.ContentType, now, saveErr)
                /\ resp' = Answered(req, domain, << "Get", "fetchFaviconsParallel", "Save" >>,
                                    MissResponse(result, writeErr))
           ELSE /\ UNCHANGED favicons
                /\ resp' = Answered(req, domain, << "Get", "fetchFaviconsParallel" >>,
                                    DefaultResponse(writeErr))

handleHealthz(pingErr) ==
    /\ resp' = Answered(Request("healthz", "", NotRead), "", << "Ping" >>,
                        HealthzResponse(pingErr))
    /\ UNCHANGED << favicons, now, inflight >>
    /\ UNCHANGED runVars

\* the periodic cleanup goroutine of main (and the cleanup at startup)
CleanupExpired ==
    /\ favicons' = RepoCleanupExpired(favicons, now)
    /\ UNCHANGED << now, inflight, resp >>
    /\ UNCHANGED runVars

\* time passes, one ticker period at a time
Tick ==
    /\ now + CleanupPeriodHours <= MaxClock
    /\ now' = now + CleanupPeriodHours
    /\ UNCHANGED << favicons, inflight, resp >>
    /\ UNCHANGED runVars

\* the service with a working store and a working client connection
Next ==
    \/ \E u \in RawURLs, m \in IfNoneMatches : HomeLookup(u, m, FALSE, FALSE)
    \/ \E req \in BagToSet(inflight) :
          \E res \in OutcomesOf[DomainOf[req.url]] :
             HomeResolve(req, res, FALSE, FALSE)
    \/ handleHealthz(FALSE)
    \/ CleanupExpired
    \/ Tick

Spec == Init /\ [][Next]_vars

\* the same service when store calls and response writes may fail
NextFaults ==
    \/ \E u \in RawURLs, m \in IfNoneMatches, ge \in BOOLEAN, we \in BOOLEAN : HomeLookup(u, m, ge, we)
    \/ \E req \in BagToSet(inflight), se \in BOOLEAN, we \in BOOLEAN :
          \E res \in OutcomesOf[DomainOf[req.url]] :
             HomeResolve(req, res, se, we)
    \/ \E pe \in BOOLEAN : handleHealthz(pe)
    \/ CleanupExpired
    \/ Tick

SpecFaults == Init /\ [][NextFaults]_vars

TypeOK ==
    /\ now \in 0..MaxClock
    /\ BagCardinality(inflight) <= MaxInFlight
    /\ resp.rsp.status \in { 0, 200, 304, 400, 503 }

\* ----------------------------------------------- the repository on its own
\* FaviconRepository called directly, as the tests call it: any sequence of
\* Save, Get and CleanupExpired while time passes.  resp holds the latest
\* call and what it returned.
SavePayloads ==
    { << Ico16, "image/x-icon" >>, << Png64, "image/png" >>, << Ico16, "image/png" >> }

Returned(op, domain, data, contentType, out) ==
    [req |-> Request(op, domain, NotRead), domain |-> domain, calls |-> << op >>,
     data |-> data, contentType |-> contentType, rsp |-> out]

Get(domain) ==
    /\ resp' = Returned("Get", domain, NoBody, "", RepoGet(favicons, domain, now, FALSE))
    /\ UNCHANGED << favicons, now, inflight >>
    /\ UNCHANGED runVars

Save(domain, data, contentType) ==
    /\ favicons' = RepoSave(favicons, domain, data, contentType, now, FALSE)
    /\ resp' = Returned("Save", domain, data, contentType, [err |-> ""])
    /\ UNCHANGED << now, inflight >>
    /\ UNCHANGED runVars

\* repo.CleanupExpired() with its return value and the logged row count
CleanupExpiredCall ==
    /\ favicons' = RepoCleanupExpired(favicons, now)
    /\ resp' = Returned("CleanupExpired", "", NoBody, "",
                        [err |-> "", rowsAffected |-> Cardinality(favicons \ RepoCleanupExpired(favicons, now))])
    /\ UNCHANGED << now, inflight >>
    /\ UNCHANGED runVars

NextRepo ==
    \/ \E domain \in Domains, p \in SavePayloads : Save(domain, p[1], p[2])
    \/ \E domain \in Domains : Get(domain)
    \/ CleanupExpiredCall
    \/ Tick

SpecRepo == Init /\ [][NextRepo]_vars

\* ------------------------------------------------ the functions on their own
\* extractDomain, getFaviconURLs, isImage and fetchFavicon applied to one
\* input each, as the unit tests apply them.  resp holds the call: the
\* function, its argument and, once it has returned, its result.
RECURSIVE Strings(_, _)
Strings(alphabet, n) ==
    IF n = 0 THEN { "" }
    ELSE LET shorter == Strings(alphabet, n - 1)
         IN  shorter \cup { c \o t : c \in alphabet, t \in shorter }

\* addresses: an optional scheme, then every string of up to MaxTailLen
\* characters over a letter, a capital, '/' and ':'; and the tests' addresses
NormalizerInputs ==
    { x : x \in { scheme \o t : scheme \in { "", "https://", "http://" },
                               t \in Strings({ "a", "B", "/", ":" }, MaxTailLen) }
               \cup { "https://Example.com:8080/x", "https://example.com/path",
                      "EXAMPLE.COM", "https://sub.example.com" } }

Pending(fn, arg) ==
    [req |-> Request(fn, arg, NotRead), domain |-> "", calls |-> << >>, rsp |-> NotRead]

Applied(fn, arg, out) ==
    [req |-> Request(fn, arg, NotRead), domain |-> "", calls |-> << fn >>, rsp |-> out]

\* base addresses: baseURL := "https://" + domain of handleHome, and the tests'
BaseURLs ==
    { b : b \in { "https://" \o extractDomain(x) : x \in NormalizerInputs }
               \cup { "", "https://example.com", "http://b.io:8080" } }

\* Content-Type values: media types in several spellings, each bare and
\* with a parameter, a trailing ';' or a trailing blank
ContentTypeInputs ==
    { c \o p : c \in { "image/x-icon", "image/vnd.microsoft.icon", "image/icon", "image/ico",
                       "image/png", "image/jpeg", "image/jpg", "image/gif",
                       "image/svg+xml", "image/webp",
                       "IMAGE/PNG", "Image/X-Icon", "image/SVG+XML",
                       "text/html", "application/json", "image/bmp", "image/",
                       "image/pn", "image/pngs", " image/png", "" },
                p \in { "", ";", "; charset=utf-8", " ", ";image/png" } }

\* probes: a 200 answer with a body, under each of a few Content-Type values
ProbeInputs ==
    { [url |-> u, reply |-> OriginReply("ok", 200, c, body, FALSE)] :
        u \in { "https://a.io/favicon.ico", "https://a.io/apple-touch-icon.png" },
        c \in { "image/png", "IMAGE/PNG; q=1", "image/x-icon", "", "text/html",
                "image/bmp", "image/png ", "text/html;image/png" },
        body \in { Png64, Ico16, PngOversize, IcoOversize, PngAtCap } }

\* images for resizeImage: real format, complete or cut short, dimensions
\* around 16, and a 16x16 re-encoding shorter than, as long as or longer
\* than the bytes, or failing; each under several declared content types
ResizeImages ==
    { [tag |-> "img", fmt |-> f, whole |-> wh, w |-> d[1], h |-> d[2], len |-> 900, enc |-> e] :
        f \in { "png", "jpeg", "ico" },
        wh \in BOOLEAN,
        d \in { << 1, 1 >>, << 16, 16 >>, << 16, 17 >>, << 17, 16 >>, << 32, 32 >> },
        e \in { 899, 900, 901, -1 } }

ResizeInputs ==
    { [data |-> img, contentType |-> c] :
        img \in ResizeImages,
        c \in { "image/png", "image/jpeg", "image/jpg", "image/x-icon", "image/gif",
                "IMAGE/PNG", "image/png; charset=utf-8", "" } }

\* a <link> tag with its rel attribute before or after href, in either quote
\* style
LinkTag(layout, q, rel) ==
    IF layout = "rel first"
    THEN "<link rel=" \o q \o rel \o q \o " href=" \o q \o "/f.png" \o q \o ">"
    ELSE "<link href=" \o q \o "/f.png" \o q \o " rel=" \o q \o rel \o q \o " as=" \o q \o "font" \o q \o ">"

LinkLayouts == { "rel first", "href first" }

Quotes == { "\"", "'" }

\* the rel values of the tests, and capitalised, padded and combined ones
RelValues ==
    { "icon", "shortcut icon", "apple-touch-icon", "APPLE-TOUCH-ICON", "mask-icon",
      "  icon  ", "Shortcut Icon", "stylesheet", "preload", "dns-prefetch",
      "preconnect", "modulepreload", "prefetch", "icon preload", "PRELOAD icon", "" }

TagsWithoutRel == { "<link href=\"/style.css\">", "<link href='/style.css'>", "<link>" }

IconLinkInputs ==
    { tag : tag \in { LinkTag(l, q, v) : l \in LinkLayouts, q \in Quotes, v \in RelValues }
                   \cup TagsWithoutRel }

\* the call fn(arg) is about to be made
Calls(fn, args) == \E arg \in args : resp = Pending(fn, arg)

InitPure ==
    /\ \/ Calls("extractDomain", NormalizerInputs)
       \/ Calls("getFaviconURLs", BaseURLs)
       \/ Calls("isImage", ContentTypeInputs)
       \/ Calls("fetchFavicon", ProbeInputs)
       \/ Calls("resizeImage", ResizeInputs)
       \/ Calls("isIconLink", IconLinkInputs)
    /\ favicons = {}
    /\ now = 0
    /\ inflight = EmptyBag
    /\ urlGroups = << >>
    /\ task = << >>
    /\ held = << >>
    /\ resultChan = << >>
    /\ chanClosed = FALSE
    /\ ctx = "live"
    /\ ret = NoRun
    /\ published = << >>

CallExtractDomain ==
    /\ resp.calls = << >> /\ resp.req.kind = "extractDomain"
    /\ resp' = Applied("extractDomain", resp.req.url, extractDomain(resp.req.url))
    /\ UNCHANGED << favicons, now, inflight >>
    /\ UNCHANGED runVars

\* the cache key normalized once more: extractDomain(domain); domain keeps
\* the key of the first call
CallExtractDomainAgain ==
    /\ resp.req.kind = "extractDomain" /\ resp.calls = << "extractDomain" >>
    /\ resp' = [resp EXCEPT !.calls = Append(@, "extractDomain"),
                            !.domain = resp.rsp,
                            !.rsp = extractDomain(resp.rsp)]
    /\ UNCHANGED << favicons, now, inflight >>
    /\ UNCHANGED runVars

CallGetFaviconURLs ==
    /\ resp.calls = << >> /\ resp.req.kind = "getFaviconURLs"
    /\ resp' = Applied("getFaviconURLs", resp.req.url, getFaviconURLs(resp.req.url))
    /\ UNCHANGED << favicons, now, inflight >>
    /\ UNCHANGED runVars

CallIsImage ==
    /\ resp.calls = << >> /\ resp.req.kind = "isImage"
    /\ resp' = Applied("isImage", resp.req.url, isImage(resp.req.url))
    /\ UNCHANGED << favicons, now, inflight >>
    /\ UNCHANGED runVars

\* fetchFavicon(ctx, url) on a live context, the origin answering reply
CallFetchFavicon ==
    /\ resp.calls = << >> /\ resp.req.kind = "fetchFavicon"
    /\ resp' = Applied("fetchFavicon", resp.req.url,
                       fetchFavicon(FALSE, resp.req.url.url, resp.req.url.reply))
    /\ UNCHANGED << favicons, now, inflight >>
    /\ UNCHANGED runVars

\* resizeImage(data, contentType), and once more on the bytes it returned;
\* every return statement of resizeImage returns a nil error
CallResizeImage ==
    /\ resp.req.kind = "resizeImage" /\ Len(resp.calls) < 2
    /\ resp' = [resp EXCEPT
                  !.calls = Append(@, "resizeImage"),
                  !.rsp = [data |-> resizeImage(IF resp.calls = << >> THEN resp.req.url.data
                                                ELSE resp.rsp.data,
                                                resp.req.url.contentType),
                           err |-> "nil"]]
    /\ UNCHANGED << favicons, now, inflight >>
    /\ UNCHANGED runVars

CallIsIconLink ==
    /\ resp.calls = << >> /\ resp.req.kind = "isIconLink"
    /\ resp' = Applied("isIconLink", resp.req.url, isIconLink(resp.req.url))
    /\ UNCHANGED << favicons, now, inflight >>
    /\ UNCHANGED runVars

NextPure ==
    \/ CallIsIconLink
    \/ CallExtractDomainAgain
    \/ CallExtractDomain
    \/ CallGetFaviconURLs
    \/ CallIsImage
    \/ CallFetchFavicon
    \/ CallResizeImage

SpecPure == InitPure /\ [][NextPure]_vars

\* ------------------------------------------------------------ the resolver
\* fetchFaviconsParallel, one step per statement that another goroutine can
\* observe.  A task is "fetching" (inside fetchFavicon), "publishing" (at the
\* select), "done" (returned, wg.Done ran) or "panicked".
FirstN(seq, n) == SubSeq(seq, 1, IF n < Len(seq) THEN n ELSE Len(seq))

\* the first NumCand candidates of a host, in their groups
RECURSIVE TakeGroups(_, _)
TakeGroups(groups, n) ==
    IF groups = << >> \/ n <= 0 THEN << >>
    ELSE << FirstN(Head(groups), n) >> \o TakeGroups(Tail(groups), n - Len(Head(groups)))

RunGroups == TakeGroups(getFaviconURLs("https://a.io"), NumCand)

Candidates == Flatten(urlGroups)

CtxDone == ctx # "live"

\* faulty variant: cancel() leaves the scope as it is
Cancel_Never(c) == c

\* cancel(): the first cancellation or the deadline decides ctx.Err()
Cancel(c) == IF c = "live" THEN "canceled" ELSE c

\* faulty variant: the receive takes the queued result of the earliest
\* candidate in priority order
Receive_ByPriority(ch) ==
    LET rank(r) == CHOOSE i \in DOMAIN Candidates : Candidates[i] = r.URL
        k == CHOOSE k \in DOMAIN ch : \A j \in DOMAIN ch : rank(ch[k]) <= rank(ch[j])
    IN  [result |-> ch[k], rest |-> SubSeq(ch, 1, k - 1) \o SubSeq(ch, k + 1, Len(ch))]

\* faulty variant: the receive takes the newest send
Receive_Newest(ch) == [result |-> ch[Len(ch)], rest |-> SubSeq(ch, 1, Len(ch) - 1)]

\* for result := range resultChan: the receive takes the oldest send
Receive(ch) == [result |-> Head(ch), rest |-> Tail(ch)]

Holding(reply, result) == [reply |-> reply, result |-> result]

NoReply == OriginReply("none", 0, "", NoBody, FALSE)

\* var httpClient = &http.Client{Timeout: 1 * time.Second, ...}, in milliseconds
httpClient == [Timeout |-> 1000]

\* handleHome: fetchFaviconsParallel(faviconURLGroups, 180*time.Millisecond)
ResolveTimeout == 180

\* ctx, resultChan, wg and the goroutines of lines 790-817
StartRun(timeout) ==
    /\ ret.state = "idle"
    /\ urlGroups' = RunGroups
    /\ task' = [ i \in 1..Len(Flatten(RunGroups)) |-> "fetching" ]
    /\ held' = [ i \in 1..Len(Flatten(RunGroups)) |-> Holding(NoReply, NilResult) ]
    /\ resultChan' = << >>
    /\ chanClosed' = FALSE
    /\ ctx' = "live"
    /\ ret' = Run("waiting", timeout, NilResult)
    /\ published' = << >>
    /\ UNCHANGED storeVars

\* faulty variant: the goroutine publishes whatever fetchFavicon returned
TaskFetch_PublishesErrors(i, reply) ==
    LET result == fetchFavicon(CtxDone, Candidates[i], reply)
    IN  /\ task[i] = "fetching"
        /\ held' = [held EXCEPT ![i] = Holding(reply, result)]
        /\ task' = [task EXCEPT ![i] = "publishing"]
        /\ UNCHANGED << urlGroups, resultChan, chanClosed, ctx, ret, published >>
        /\ UNCHANGED storeVars

\* result := fetchFavicon(ctx, u); a failed probe ends the goroutine
TaskFetch(i, reply) ==
    LET result == fetchFavicon(CtxDone, Candidates[i], reply)
    IN  /\ task[i] = "fetching"
        /\ held' = [held EXCEPT ![i] = Holding(reply, result)]
        /\ task' = [task EXCEPT ![i] = IF result.Error = "" THEN "publishing" ELSE "done"]
        /\ UNCHANGED << urlGroups, resultChan, chanClosed, ctx, ret, published >>
        /\ UNCHANGED storeVars

\* select, case resultChan <- result
TaskSend(i) ==
    /\ task[i] = "publishing"
    /\ chanClosed \/ Len(resultChan) < ResultChanCap
    /\ IF chanClosed
       THEN /\ task' = [task EXCEPT ![i] = "panicked"]
            /\ UNCHANGED << resultChan, published >>
       ELSE /\ task' = [task EXCEPT ![i] = "done"]
            /\ resultChan' = Append(resultChan, held[i].result)
            /\ published' = Append(published, held[i].result)
    /\ UNCHANGED << urlGroups, held, chanClosed, ctx, ret >>
    /\ UNCHANGED storeVars

\* faulty variant: a plain send, resultChan <- result, without the
\* ctx.Done case
TaskDrop_Never(i) ==
    /\ FALSE
    /\ task[i] = "publishing"
    /\ UNCHANGED << urlGroups, task, held, resultChan, chanClosed, ctx, ret, published >>
    /\ UNCHANGED storeVars

\* select, case <-ctx.Done()
TaskDrop(i) ==
    /\ task[i] = "publishing"
    /\ CtxDone
    /\ task' = [task EXCEPT ![i] = "done"]
    /\ UNCHANGED << urlGroups, held, resultChan, chanClosed, ctx, ret, published >>
    /\ UNCHANGED storeVars

\* faulty variant: the channel is closed when the caller has returned
\* (defer close(resultChan)), not when the tasks have ended
CloseChan_OnReturn ==
    /\ ret.state = "returned"
    /\ ~chanClosed
    /\ chanClosed' = TRUE
    /\ UNCHANGED << urlGroups, task, held, resultChan, ctx, ret, published >>
    /\ UNCHANGED storeVars

\* go func() { wg.Wait(); close(resultChan) }()
CloseChan ==
    /\ ret.state # "idle"
    /\ ~chanClosed
    /\ \A i \in DOMAIN task : task[i] = "done"
    /\ chanClosed' = TRUE
    /\ UNCHANGED << urlGroups, task, held, resultChan, ctx, ret, published >>
    /\ UNCHANGED storeVars

\* the range loop receives a result: cancel() and return &result
MainReceive ==
    /\ ret.state = "waiting"
    /\ resultChan # << >>
    /\ resultChan' = Receive(resultChan).rest
    /\ IF Receive(resultChan).result.Error = ""
       THEN /\ ctx' = Cancel(ctx)
            /\ ret' = Run("returned", ret.timeout, Receive(resultChan).result)
       ELSE UNCHANGED << ctx, ret >>
    /\ UNCHANGED << urlGroups, task, held, chanClosed, published >>
    /\ UNCHANGED storeVars

\* the range loop ends on the closed, drained channel: return nil (and the
\* deferred cancel())
MainReturnNil ==
    /\ ret.state = "waiting"
    /\ resultChan = << >>
    /\ chanClosed
    /\ ctx' = Cancel(ctx)
    /\ ret' = Run("returned", ret.timeout, NilResult)
    /\ UNCHANGED << urlGroups, task, held, resultChan, chanClosed, published >>
    /\ UNCHANGED storeVars

\* context.WithTimeout: the deadline passes
Deadline ==
    /\ ret.state # "idle"
    /\ ctx = "live"
    /\ ctx' = "deadline"
    /\ UNCHANGED << urlGroups, task, held, resultChan, chanClosed, ret, published >>
    /\ UNCHANGED storeVars

NextResolver ==
    \/ StartRun(ResolveTimeout)
    \/ \E i \in DOMAIN task : \E reply \in RepliesFor(Candidates[i]) : TaskFetch(i, reply)
    \/ \E i \in DOMAIN task : TaskSend(i)
    \/ \E i \in DOMAIN task : TaskDrop(i)
    \/ CloseChan
    \/ MainReceive
    \/ MainReturnNil
    \/ Deadline

SpecResolver == Init /\ [][NextResolver]_vars

\* the goroutines of one run
TaskIds == 1..Len(Flatten(RunGroups))

\* What the Go runtime guarantees: a goroutine that can take a step takes it.
\* A probe ends (answer, error, client timeout or cancelled context), a select
\* with a ready case completes, the closer and the range loop run, and the
\* timer of context.WithTimeout fires while the scope is live.
FairResolver ==
    /\ \A i \in TaskIds : WF_vars(i \in DOMAIN task /\ \E reply \in RepliesFor(Candidates[i]) : TaskFetch(i, reply))
    /\ \A i \in TaskIds : WF_vars(i \in DOMAIN task /\ (TaskSend(i) \/ TaskDrop(i)))
    /\ WF_vars(CloseChan)
    /\ WF_vars(MainReceive)
    /\ WF_vars(MainReturnNil)
    /\ WF_vars(Deadline)

SpecResolverFair == Init /\ [][NextResolver]_vars /\ FairResolver

\* ------------------------------------------- a run with a nearly full queue
\* fetchFaviconsParallel takes any groups.  A run over QueuedCount + NumCand
\* candidates, at the moment the first QueuedCount tasks have sent their
\* results and ended while the caller has not yet received any: one more
\* send fills the channel.
QueuedCount == ResultChanCap - 1

RECURSIVE QueuedURLs(_)
QueuedURLs(n) ==
    IF n = 0 THEN << >>
    ELSE Append(QueuedURLs(n - 1), "https://q.io/" \o ToString(n) \o "/favicon.ico")

IcoReply == OriginReply("ok", 200, "image/x-icon", Ico16, FALSE)

CrowdedGroups ==
    << QueuedURLs(QueuedCount),
       FirstN(<< "https://a.io/favicon.ico", "https://a.io/apple-touch-icon.png", "https://b.io/favicon.ico",
                 "https://b.io/apple-touch-icon.png" >>, NumCand) >>

QueuedResults ==
    [ i \in 1..QueuedCount |-> fetchFavicon(FALSE, QueuedURLs(QueuedCount)[i], IcoReply) ]

InitCrowded ==
    /\ favicons = {}
    /\ now = 0
    /\ inflight = EmptyBag
    /\ resp = Answered(NoRequest, "", << >>, EmptyResponse)
    /\ urlGroups = CrowdedGroups
    /\ task = [ i \in 1..Len(Flatten(CrowdedGroups)) |-> IF i <= QueuedCount THEN "done" ELSE "fetching" ]
    /\ held = [ i \in 1..Len(Flatten(CrowdedGroups)) |->
                  IF i <= QueuedCount THEN Holding(IcoReply, QueuedResults[i])
                  ELSE Holding(NoReply, NilResult) ]
    /\ resultChan = QueuedResults
    /\ chanClosed = FALSE
    /\ ctx = "live"
    /\ ret = Run("waiting", ResolveTimeout, NilResult)
    /\ published = QueuedResults

CrowdedTaskIds == 1..(QueuedCount + NumCand)

FairCrowded ==
    /\ \A i \in CrowdedTaskIds : WF_vars(i \in DOMAIN task /\ \E reply \in RepliesFor(Candidates[i]) : TaskFetch(i, reply))
    /\ \A i \in CrowdedTaskIds : WF_vars(i \in DOMAIN task /\ (TaskSend(i) \/ TaskDrop(i)))
    /\ WF_vars(CloseChan)
    /\ WF_vars(MainReceive)
    /\ WF_vars(MainReturnNil)
    /\ WF_vars(Deadline)

\* runs of handleHome's three candidates, and runs with the nearly full queue
SpecResolverCrowded == (Init \/ InitCrowded) /\ [][NextResolver]_vars /\ FairCrowded

ResolverTypeOK ==
    /\ ctx \in { "live", "canceled", "deadline" }
    /\ ret.state \in { "idle", "waiting", "returned" }
    /\ ret.timeout \in { 0, ResolveTimeout }
    /\ \A i \in DOMAIN task : task[i] \in { "fetching", "publishing", "done", "panicked" }
    /\ Len(resultChan) <= ResultChanCap
    /\ ret.result \in ResolverOutcomes(urlGroups)

\* ---------------------------------------------------------- claim vocabulary
\* the non-expired rows of a host at the current time
FreshRows(domain) == { r \in favicons : r.domain = domain /\ r.expires_at > now }

\* the canonical host of a request address (extractDomain, tabulated)
CanonicalHost(rawURL) == DomainOf[rawURL]

\* the validators of a host: "fav-<host>" and its weak form
ValidatorsOf == Tabulated({ << d, { "\"fav-" \o d \o "\"", "W/\"fav-" \o d \o "\"" } >> : d \in Domains })

Header(rsp, name) == IF HasHeader(rsp, name) THEN rsp.headers[name] ELSE "(absent)"

\* this step answers request (u, m) in the lookup part of handleHome
AnsweredAtLookup(u, m) == inflight' = inflight /\ resp'.req = Request("home", u, m)

\* this step sends a request on to the resolver
EntersMiss(u) == inflight' = inflight (+) SetToBag({ Request("home", u, NotRead) }) /\ resp' = resp

\* this step answers a request that was in the miss branch
LeavesMiss == BagCardinality(inflight') < BagCardinality(inflight)

\* C1: a request whose canonical host has a non-expired entry (d, t) and whose
\* If-None-Match does not match is answered 200 with body d, Content-Type t
\* and X-Cache: HIT.
C1_HitServesEntry ==
    [][ \A u \in RawURLs \ { "" }, m \in IfNoneMatches :
          ( /\ FreshRows(CanonicalHost(u)) # {}
            /\ m \notin ValidatorsOf[CanonicalHost(u)]
            /\ HomeLookup(u, m, FALSE, FALSE) )
          => \E r \in FreshRows(CanonicalHost(u)) :
                /\ AnsweredAtLookup(u, m)
                /\ resp'.rsp.status = 200
                /\ resp'.rsp.body = r.data
                /\ Header(resp'.rsp, "Content-Type") = r.content_type
                /\ Header(resp'.rsp, "X-Cache") = "HIT" ]_vars

C1_Witness ==
    /\ resp.req = Request("home", "https://A.io:8080/x", "")
    /\ resp.rsp.status = 200
    /\ Header(resp.rsp, "X-Cache") = "HIT"
    /\ \E r \in FreshRows("a.io") : resp.rsp.body = r.data

\* C3: no non-expired entry and no resolver result: 200 with the bundled
\* default icon, Content-Type image/x-icon and X-Cache: DEFAULT.
C3_DefaultOnTotalFailure ==
    [][ /\ \A u \in RawURLs \ { "" }, m \in IfNoneMatches :
             (FreshRows(CanonicalHost(u)) = {} /\ HomeLookup(u, m, FALSE, FALSE)) => EntersMiss(u)
        /\ \A req \in BagToSet(inflight) :
             HomeResolve(req, NilResult, FALSE, FALSE)
             => /\ resp'.req = req
                /\ resp'.rsp.status = 200
                /\ resp'.rsp.body = DefaultIcon
                /\ Header(resp'.rsp, "Content-Type") = "image/x-icon"
                /\ Header(resp'.rsp, "X-Cache") = "DEFAULT" ]_vars

C3_Witness ==
    /\ resp.req.kind = "home"
    /\ resp.calls = << "Get", "fetchFaviconsParallel" >>
    /\ resp.rsp.body = DefaultIcon
    /\ FreshRows(resp.domain) = {}

\* C4: a request without url (missing or empty) is answered 400 at once: the
\* handler reads and writes no cache row and does not call the resolver.
C4_MissingURLIs400 ==
    [][ \A m \in IfNoneMatches :
          HomeLookup("", m, FALSE, FALSE)
          => /\ resp'.req.kind = "home" /\ resp'.req.url = ""
             /\ resp'.rsp.status = 400
             /\ resp'.calls = << >>
             /\ favicons' = favicons
             /\ inflight' = inflight ]_vars

C4_Witness ==
    /\ resp.req.kind = "home" /\ resp.req.url = ""
    /\ resp.rsp.status = 400
    /\ favicons # {}

\* C5: 304 with no body exactly when the host has a non-expired entry and
\* If-None-Match is "fav-<host>" or its W/ form; a request that went to the
\* resolver is never answered 304.
C5_NotModifiedIffValidatorMatches ==
    [][ /\ \A u \in RawURLs \ { "" }, m \in IfNoneMatches :
             HomeLookup(u, m, FALSE, FALSE)
             => ( (AnsweredAtLookup(u, m) /\ resp'.rsp.status = 304 /\ resp'.rsp.body = NoBody)
                  <=> ( /\ FreshRows(CanonicalHost(u)) # {}
                        /\ m \in ValidatorsOf[CanonicalHost(u)] ) )
        /\ LeavesMiss => resp'.rsp.status # 304 ]_vars

C5_Witness ==
    /\ resp.req = Request("home", "https://A.io:8080/x", "W/\"fav-a.io\"")
    /\ resp.rsp.status = 304

\* a successful resolution is saved under the canonical host and served MISS
MissIsSavedAndServed ==
    LeavesMiss =>
      \A req \in BagToSet(inflight) :
        \A res \in OutcomesOf[CanonicalHost(req.url)] \ { NilResult } :
          HomeResolve(req, res, FALSE, FALSE)
          => /\ resp'.req = req
             /\ resp'.rsp.status = 200
             /\ Header(resp'.rsp, "X-Cache") = "MISS"
             /\ resp'.rsp.body = res.Data
             /\ Header(resp'.rsp, "Content-Type") = res.ContentType
             /\ \E r \in favicons' :
                   /\ r.domain = CanonicalHost(req.url)
                   /\ r.data = res.Data /\ r.content_type = res.ContentType
                   /\ r.created_at = now

\* a row younger than 24 hours goes away only by being overwritten
YoungRowsStay ==
    \A r \in favicons :
       now < r.created_at + TTLHours
       => \/ r \in favicons'
          \/ \E r2 \in favicons' : r2.domain = r.domain /\ r2.created_at = now

\* C2 as stated: a successful resolution is saved under the canonical host and
\* served MISS, and every request for the host in the 24 hours after the save
\* is served HIT with the saved bytes and content type.
C2_EveryLaterRequestIsHit ==
    [][ /\ MissIsSavedAndServed
        /\ YoungRowsStay
        /\ \A u \in RawURLs \ { "" }, m \in IfNoneMatches :
             \A r \in favicons :
               ( /\ r.domain = CanonicalHost(u) /\ now < r.created_at + TTLHours
                 /\ HomeLookup(u, m, FALSE, FALSE) )
               => /\ AnsweredAtLookup(u, m)
                  /\ resp'.rsp.status = 200
                  /\ Header(resp'.rsp, "X-Cache") = "HIT"
                  /\ resp'.rsp.body = r.data
                  /\ Header(resp'.rsp, "Content-Type") = r.content_type ]_vars

\* C2, amended: as C2, except that a later request whose If-None-Match matches
\* the host's validator is answered 304 with no body instead of HIT.
C2_LaterRequestIsHitOr304 ==
    [][ /\ MissIsSavedAndServed
        /\ YoungRowsStay
        /\ \A u \in RawURLs \ { "" }, m \in IfNoneMatches :
             \A r \in favicons :
               ( /\ r.domain = CanonicalHost(u) /\ now < r.created_at + TTLHours
                 /\ HomeLookup(u, m, FALSE, FALSE) )
               => /\ AnsweredAtLookup(u, m)
                  /\ IF m \in ValidatorsOf[CanonicalHost(u)]
                     THEN resp'.rsp.status = 304 /\ resp'.rsp.body = NoBody
                     ELSE /\ resp'.rsp.status = 200
                          /\ Header(resp'.rsp, "X-Cache") = "HIT"
                          /\ resp'.rsp.body = r.data
                          /\ Header(resp'.rsp, "Content-Type") = r.content_type ]_vars

\* a HIT through another address of the host, 18 hours after the save
C2_Witness ==
    /\ resp.req = Request("home", "a.io", "")
    /\ Header(resp.rsp, "X-Cache") = "HIT"
    /\ \E r \in favicons : r.domain = "a.io" /\ r.data = resp.rsp.body /\ now = r.created_at + 18

\* C6 as stated: every 200 response of GET /?url= carries X-Favicon-Source,
\* cached with X-Cache HIT, fetched with MISS, default with DEFAULT.
C6_SourceHeaderOnEvery200 ==
    (resp.req.kind = "home" /\ resp.rsp.status = 200)
    => << Header(resp.rsp, "X-Cache"), Header(resp.rsp, "X-Favicon-Source") >>
          \in { << "HIT", "cached" >>, << "MISS", "fetched" >>, << "DEFAULT", "default" >> }

\* C7 as stated: a store failure in Get or Save makes the request end in
\* service-unavailable, not in a miss and not in a silent answer.
C7_StoreFailureIs503 ==
    [][ /\ \A u \in RawURLs \ { "" }, m \in IfNoneMatches, we \in BOOLEAN :
             HomeLookup(u, m, TRUE, we) => (AnsweredAtLookup(u, m) /\ resp'.rsp.status = 503)
        /\ LeavesMiss =>
             \A req \in BagToSet(inflight), we \in BOOLEAN :
               \A res \in OutcomesOf[CanonicalHost(req.url)] \ { NilResult } :
                 HomeResolve(req, res, TRUE, we) => resp'.rsp.status = 503 ]_vars

\* C8: whatever the store, the resolver and the response writer do, handleHome
\* writes status 200, 304 or 400, and 400 only when url is missing.
C8_HomeStatusIs200or304or400 ==
    resp.req.kind = "home"
    => /\ resp.rsp.status \in { 200, 304, 400 }
       /\ resp.rsp.status = 400 => resp.req.url = ""

\* a response whose write failed, for a request the resolver found nothing for
C8_Witness ==
    /\ resp.req.kind = "home"
    /\ resp.rsp.logged
    /\ resp.rsp.status = 200
    /\ Header(resp.rsp, "X-Cache") = "DEFAULT"

\* C9: /healthz answers 200 "ok" when Ping succeeds and 503 when it fails, and
\* leaves the cache as it is.
C9_HealthzFollowsPing ==
    [][ \A pe \in BOOLEAN :
          handleHealthz(pe)
          => /\ resp'.req.kind = "healthz"
             /\ resp'.rsp.status = IF pe THEN 503 ELSE 200
             /\ ~pe => resp'.rsp.body = TextBody("ok")
             /\ favicons' = favicons ]_vars

C9_Witness ==
    /\ resp.req.kind = "healthz"
    /\ resp.rsp.status = 503
    /\ favicons # {}

\* C10: a non-nil return is the result of a candidate whose probe succeeded
\* (status 200, allowed content type, body read), it is the first result
\* published to the queue, and the scope is cancelled once it is received.
C10_ReturnsFirstPublished ==
    (ret.state = "returned" /\ ret.result # NilResult)
    => /\ \E i \in DOMAIN task :
            /\ held[i].result = ret.result
            /\ held[i].reply.net = "ok" /\ held[i].reply.status = 200
            /\ isImage(held[i].reply.ctype) /\ ~held[i].reply.readErr
       /\ published # << >> /\ ret.result = published[1]
       /\ ctx # "live"

\* two candidates published, the first is the answer
C10_Witness ==
    /\ ret.state = "returned"
    /\ Len(published) = 2
    /\ published[1] # published[2]
    /\ ret.result = published[1]

\* the deadline has elapsed and no candidate has published
SilentDeadline == ctx = "deadline" /\ published = << >>

\* the probes of the first two candidates failed, the third candidate's
\* probe succeeded and is the only one that published
OnlyThirdPublished ==
    /\ Len(task) = 3
    /\ task[1] = "done" /\ held[1].result.Error # ""
    /\ task[2] = "done" /\ held[2].result.Error # ""
    /\ held[3].result.Error = "" /\ published = << held[3].result >>

\* C11 as stated: once the deadline has elapsed with nothing published,
\* fetchFaviconsParallel returns, and what it returns is nil; when of three
\* candidates only the third succeeds, it returns that candidate's result.
C11_NilAfterSilentDeadline ==
    /\ [](SilentDeadline => [](ret.state = "returned" => ret.result = NilResult))
    /\ [](SilentDeadline => <>(ret.state = "returned"))
    /\ [](OnlyThirdPublished => <>(ret.state = "returned" /\ Len(held) = 3 /\ ret.result = held[3].result))

\* --------------------------------------------------- repository vocabulary
RowsOf(rows, domain) == { r \in rows : r.domain = domain }

Found(data, contentType) == [err |-> "", data |-> data, contentType |-> contentType]

NotFound == [err |-> "sql: no rows in result set", data |-> NoBody, contentType |-> ""]

\* this step is Save(h, d, t) and leaves exactly the row (h, d, t), made now
SaveStoresRow ==
    \A h \in Domains, p \in SavePayloads :
       Save(h, p[1], p[2])
       => \E r \in favicons' :
             /\ RowsOf(favicons', h) = { r }
             /\ r.data = p[1] /\ r.content_type = p[2] /\ r.created_at = now

\* C12: Save(h, d, t) followed by Get(h), before expiry and with no Save for
\* h in between, returns exactly (d, t); Get on a host that has never been
\* saved returns not-found.
C12_GetReturnsLastSave ==
    [][ /\ SaveStoresRow
        /\ YoungRowsStay
        /\ \A h \in Domains :
             Get(h)
             => /\ \A r \in RowsOf(favicons, h) :
                     now < r.created_at + TTLHours => resp'.rsp = Found(r.data, r.content_type)
                /\ RowsOf(favicons, h) = {} => resp'.rsp = NotFound ]_vars

\* a Get 18 hours after the host's entry was overwritten with other bytes
C12_Witness ==
    /\ resp.req.kind = "Get"
    /\ resp.rsp = Found(Png64, "image/png")
    /\ \E r \in RowsOf(favicons, resp.domain) : r.data = Png64 /\ r.created_at = 6 /\ now = 24

\* C13: an entry whose expiry is at or before the current time is never
\* returned by Get and is deleted by CleanupExpired; an entry whose expiry is
\* in the future survives CleanupExpired and stays readable.
C13_ExpiredGoneFreshKept ==
    [][ /\ \A h \in Domains :
             Get(h)
             => /\ resp'.rsp.err = ""
                     => \E r \in RowsOf(favicons, h) :
                           r.expires_at > now /\ resp'.rsp = Found(r.data, r.content_type)
                /\ \A r \in RowsOf(favicons, h) :
                     r.expires_at > now => resp'.rsp = Found(r.data, r.content_type)
        /\ CleanupExpiredCall
             => /\ \A r \in favicons : r.expires_at <= now => r \notin favicons'
                /\ \A r \in favicons : r.expires_at > now => r \in favicons'
                /\ favicons' \subseteq favicons ]_vars

\* a cleanup at the very hour one entry expires: that entry is deleted, its
\* younger sibling is kept
C13_Witness ==
    /\ resp.req.kind = "CleanupExpired"
    /\ resp.rsp.rowsAffected = 1
    /\ now = 24
    /\ \E r \in favicons : r.expires_at = 30
    /\ \A r \in favicons : r.expires_at > now

\* C14: a Save at time T sets the expiry to T + 24 hours, also when it
\* overwrites an entry; with no later Save for the host, Get returns the entry
\* at every time before T + 24 and not-found from T + 24 on, whether or not
\* CleanupExpired has run (the row is then still stored, or already deleted).
C14_EntryLives24Hours ==
    [][ /\ \A h \in Domains, p \in SavePayloads :
             Save(h, p[1], p[2])
             => \E r \in favicons' :
                   /\ RowsOf(favicons', h) = { r }
                   /\ r.created_at = now /\ r.expires_at = now + 24
        /\ \A r \in favicons :
             \/ r \in favicons'
             \/ now >= r.created_at + 24
             \/ \E p \in SavePayloads : Save(r.domain, p[1], p[2])
        /\ \A h \in Domains :
             Get(h)
             => IF \E r \in RowsOf(favicons, h) : now < r.created_at + 24
                THEN \E r \in RowsOf(favicons, h) : resp'.rsp = Found(r.data, r.content_type)
                ELSE resp'.rsp = NotFound ]_vars

\* not-found exactly 24 hours after a Save at hour 6, the row not yet cleaned up
C14_Witness ==
    /\ resp.req.kind = "Get"
    /\ resp.rsp = NotFound
    /\ now = 30
    /\ \E r \in RowsOf(favicons, resp.domain) : r.created_at = 6

\* C15: after any sequence of Save, Get and CleanupExpired calls the store
\* holds at most one row per canonical host.
C15_OneRowPerHost ==
    \A r1 \in favicons, r2 \in favicons : r1.domain = r2.domain => r1 = r2

\* one row for each of two hosts, the latest Save made six hours after the
\* other host's
C15_Witness ==
    /\ resp.req.kind = "Save"
    /\ Cardinality(RowsOf(favicons, resp.domain)) = 1
    /\ Cardinality(favicons) = 2
    /\ \E r \in RowsOf(favicons, resp.domain) : r.created_at = 12 /\ r.data = resp.data
    /\ \E r \in favicons : r.domain # resp.domain /\ r.created_at = 6

\* the latest repository call was Save(h, d, t), and this step is the same call
SaveAgain(h, d, t) ==
    /\ resp = Returned("Save", h, d, t, [err |-> ""])
    /\ Save(h, d, t)

\* C16 as stated: Save(h, d, t) made twice in a row leaves the store as the
\* first Save left it: the same single row for h, with the same bytes,
\* content type and expiry.
C16_SaveTwiceLeavesStoreUnchanged ==
    [][ \A h \in Domains, p \in SavePayloads :
          SaveAgain(h, p[1], p[2]) => favicons' = favicons ]_vars

\* C16, amended: the second Save leaves a single row for h with the same
\* bytes and content type and leaves every other host's row alone; the
\* expiry is unchanged when the clock has not advanced between the two Saves
\* and is otherwise 24 hours after the second Save.
C16_SaveTwiceRestartsExpiry ==
    [][ \A h \in Domains, p \in SavePayloads :
          SaveAgain(h, p[1], p[2])
          => /\ \E r \in favicons' :
                   /\ RowsOf(favicons', h) = { r }
                   /\ r.data = p[1] /\ r.content_type = p[2]
                   /\ r.expires_at = now + 24
                   /\ \A r0 \in RowsOf(favicons, h) :
                         /\ r0.data = r.data /\ r0.content_type = r.content_type
                         /\ r0.created_at = now => r0.expires_at = r.expires_at
             /\ favicons' \ RowsOf(favicons', h) = favicons \ RowsOf(favicons, h)
             /\ (\A r0 \in RowsOf(favicons, h) : r0.created_at = now) => favicons' = favicons ]_vars

\* a host saved at hour 0 and saved again, with the same arguments, at hour 6
C16_Witness ==
    /\ resp.req.kind = "Save"
    /\ now = 6
    /\ favicons = { Row(resp.domain, resp.data, resp.contentType, 6) }

\* ------------------------------------------------- vocabulary for functions
\* the function fn has returned out for the argument arg
Returns(fn, arg, out) ==
    resp.req.kind = fn /\ resp.calls # << >> /\ resp.req.url = arg /\ resp.rsp = out

\* the function fn has returned, for the argument arg
HasReturned(fn, arg) == resp.req.kind = fn /\ resp.calls # << >> /\ resp.req.url = arg

\* s up to, not including, its first character c (all of s when c is absent)
RECURSIVE Before(_, _)
Before(s, c) ==
    IF s = "" \/ Head(s) = c THEN "" ELSE Head(s) \o Before(Tail(s), c)

\* s with every capital letter replaced by its small letter
RECURSIVE Lowercase(_)
Lowercase(s) ==
    IF s = "" THEN ""
    ELSE (IF \E k \in 1..26 : Head(s) = SubSeq("ABCDEFGHIJKLMNOPQRSTUVWXYZ", k, k)
          THEN LET k == CHOOSE k \in 1..26 : Head(s) = SubSeq("ABCDEFGHIJKLMNOPQRSTUVWXYZ", k, k)
               IN  SubSeq("abcdefghijklmnopqrstuvwxyz", k, k)
          ELSE Head(s))
         \o Lowercase(Tail(s))

\* x without a leading https:// or http://
WithoutScheme(x) ==
    IF Len(x) >= 8 /\ SubSeq(x, 1, 8) = "https://" THEN SubSeq(x, 9, Len(x))
    ELSE IF Len(x) >= 7 /\ SubSeq(x, 1, 7) = "http://" THEN SubSeq(x, 8, Len(x))
    ELSE x

\* what remains of x after the scheme, the path and the port are taken away
Remainder(x) == Before(Before(WithoutScheme(x), "/"), ":")

HasChar(s, cs) == \E i \in 1..Len(s) : SubSeq(s, i, i) \in cs

Capitals == { SubSeq("ABCDEFGHIJKLMNOPQRSTUVWXYZ", k, k) : k \in 1..26 }

\* C17: extractDomain strips a leading https:// or http://, cuts at the first
\* '/' and then at the first ':' and returns what remains in lowercase
\* ("https://Example.com:8080/x" gives "example.com"); when that remainder is
\* not empty the result holds no '/', no ':' and no capital letter.
C17_StripsCutsLowercases ==
    \A x \in NormalizerInputs :
       HasReturned("extractDomain", x)
       => /\ Remainder(x) # ""
               => /\ resp.rsp = Lowercase(Remainder(x))
                  /\ ~HasChar(resp.rsp, { "/", ":" } \cup Capitals)
          /\ x = "https://Example.com:8080/x" => resp.rsp = "example.com"

C17_Witness == Returns("extractDomain", "https://aB", "ab")

\* C18 as stated: whenever nothing remains after the scheme, the path and the
\* port are taken away ("", "https://", "http://", "/x", ":80"), extractDomain
\* returns its input unchanged.
C18_EmptyRemainderReturnsInput ==
    \A x \in NormalizerInputs :
       HasReturned("extractDomain", x)
       => (Remainder(x) = "" => resp.rsp = x)

\* C19: for every base address getFaviconURLs returns three groups in a fixed
\* order: the favicon.ico-style root paths with <base>/favicon.ico first, the
\* unsized apple-touch-icon URLs, the sized apple-touch-icon URLs in the order
\* 180, 152, 120; every URL starts with the base address.
C19_GroupsInFixedOrder ==
    \A b \in BaseURLs :
       HasReturned("getFaviconURLs", b)
       => LET groups == resp.rsp
          IN  /\ Len(groups) = 3
              /\ Len(groups[1]) >= 1 /\ groups[1][1] = b \o "/favicon.ico"
              /\ \A i \in 1..Len(groups[1]) :
                    \E ext \in { "ico", "png", "svg", "gif", "jpg" } :
                       groups[1][i] = b \o "/favicon." \o ext
              /\ Len(groups[2]) >= 1
              /\ \A i \in 1..Len(groups[2]) :
                    groups[2][i] \in { b \o "/apple-touch-icon.png",
                                       b \o "/apple-touch-icon-precomposed.png" }
              /\ groups[3] = << b \o "/apple-touch-icon-180x180.png",
                                b \o "/apple-touch-icon-152x152.png",
                                b \o "/apple-touch-icon-120x120.png" >>
              /\ \A g \in 1..3 : \A i \in 1..Len(groups[g]) :
                    Len(groups[g][i]) > Len(b) /\ SubSeq(groups[g][i], 1, Len(b)) = b

C19_Witness ==
    /\ HasReturned("getFaviconURLs", "https://example.com")
    /\ resp.rsp[1][1] = "https://example.com/favicon.ico"
    /\ resp.rsp[2][1] = "https://example.com/apple-touch-icon.png"

\* the allow-list of image media types, as the claim gives it
AllowList ==
    { "image/x-icon", "image/vnd.microsoft.icon", "image/icon", "image/ico",
      "image/png", "image/jpeg", "image/jpg", "image/gif", "image/svg+xml", "image/webp" }

\* the text before the first ';' is, letter case aside, on the allow-list
OnAllowList(c) == Lowercase(Before(c, ";")) \in AllowList

\* C20: isImage accepts a Content-Type value iff the text before its first
\* ';', compared case-insensitively, is on the allow-list; the empty value is
\* rejected; a probe whose content type is rejected yields no result.
C20_AcceptsAllowListOnly ==
    /\ (resp.req.kind = "isImage" /\ resp.calls # << >>)
       => /\ resp.rsp \in BOOLEAN
          /\ resp.rsp <=> OnAllowList(resp.req.url)
          /\ resp.req.url = "" => resp.rsp = FALSE
    /\ (resp.req.kind = "fetchFavicon" /\ resp.calls # << >>)
       => (~OnAllowList(resp.req.url.reply.ctype)
           => resp.rsp.Error # "" /\ resp.rsp.Data = NoBody /\ resp.rsp.ContentType = "")

\* a capitalised type with a parameter is accepted
C20_Witness == Returns("isImage", "Image/X-Icon; charset=utf-8", TRUE)

\* --------------------------------------------- vocabulary for resizeImage
\* resizeImage has run n times on the bytes given under content type c
Resized(n) == resp.req.kind = "resizeImage" /\ Len(resp.calls) = n

GivenBytes == resp.req.url.data

GivenType == resp.req.url.contentType

\* the declared content type names PNG, or JPEG
Names(c, word) == \E i \in 1..(Len(c) - Len(word) + 1) : SubSeq(c, i, i + Len(word) - 1) = word

SaysPng(c) == Names(c, "png")

SaysJpeg(c) == Names(c, "jpeg") \/ Names(c, "jpg")

\* the bytes are a complete image of the format the content type names
DecodesAs(img, c) ==
    /\ img.whole
    /\ \/ SaysPng(c) /\ img.fmt = "png"
       \/ ~SaysPng(c) /\ SaysJpeg(c) /\ img.fmt = "jpeg"

\* C21: resizeImage returns the given bytes unchanged for every image of
\* width and height at most 16, for every content type outside PNG/JPEG and
\* for every input that fails to decode; a second run on the result gives the
\* same bytes again.
C21_SmallImagesPassThrough ==
    (Resized(1) \/ Resized(2))
    => ( ( \/ GivenBytes.w <= 16 /\ GivenBytes.h <= 16
           \/ ~SaysPng(GivenType) /\ ~SaysJpeg(GivenType)
           \/ ~DecodesAs(GivenBytes, GivenType) )
         => resp.rsp.data = GivenBytes )

\* a complete 16x16 PNG with a shorter re-encoding, run through twice
C21_Witness ==
    /\ Resized(2)
    /\ GivenType = "image/png"
    /\ DecodesAs(GivenBytes, GivenType)
    /\ GivenBytes.w = 16 /\ GivenBytes.h = 16 /\ GivenBytes.enc < GivenBytes.len
    /\ resp.rsp.data = GivenBytes

\* the result is the 16x16 re-encoding of the given bytes
IsReencoding16 ==
    /\ resp.rsp.data.w = 16 /\ resp.rsp.data.h = 16
    /\ resp.rsp.data.len = GivenBytes.enc
    /\ resp.rsp.data # GivenBytes

\* C22: for a decodable PNG/JPEG with a dimension above 16, resizeImage
\* returns the 16x16 re-encoding when that is strictly shorter than the input
\* and the input otherwise; it never returns an error, and a decode or encode
\* failure yields the input bytes.
C22_ReencodesOnlyWhenShorter ==
    Resized(1)
    => /\ resp.rsp.err = "nil"
       /\ (DecodesAs(GivenBytes, GivenType) /\ (GivenBytes.w > 16 \/ GivenBytes.h > 16))
            => IF GivenBytes.enc >= 0 /\ GivenBytes.enc < GivenBytes.len
               THEN IsReencoding16
               ELSE resp.rsp.data = GivenBytes
       /\ (~DecodesAs(GivenBytes, GivenType) \/ GivenBytes.enc < 0)
            => resp.rsp.data = GivenBytes

\* a 17x16 JPEG whose re-encoding is one byte shorter
C22_Witness ==
    /\ Resized(1)
    /\ GivenType = "image/jpeg"
    /\ GivenBytes.fmt = "jpeg" /\ GivenBytes.whole
    /\ GivenBytes.w = 17 /\ GivenBytes.h = 16 /\ GivenBytes.enc = 899
    /\ IsReencoding16 /\ resp.rsp.data.len < GivenBytes.len

\* s without its leading and trailing blanks
RECURSIVE Trimmed(_)
Trimmed(s) ==
    IF s = "" THEN ""
    ELSE IF SubSeq(s, 1, 1) = " " THEN Trimmed(SubSeq(s, 2, Len(s)))
    ELSE IF SubSeq(s, Len(s), Len(s)) = " " THEN Trimmed(SubSeq(s, 1, Len(s) - 1))
    ELSE s

\* a rel value that makes an icon link
QualifiesAsIcon(rel) ==
    LET v == Trimmed(Lowercase(rel))
    IN  /\ Names(v, "icon")
        /\ ~Names(v, "preload") /\ ~Names(v, "modulepreload") /\ ~Names(v, "dns-prefetch")
        /\ ~Names(v, "preconnect") /\ ~Names(v, "prefetch")

\* C23: a link tag qualifies as an icon link iff its rel attribute, lowercased
\* and trimmed, contains "icon" and none of preload, modulepreload,
\* dns-prefetch, preconnect, prefetch, in single and in double quotes; a tag
\* without rel never qualifies; rel="preload" never qualifies, rel="icon" and
\* rel="shortcut icon" always do.
C23_IconLinkIffRelNamesIcon ==
    (resp.req.kind = "isIconLink" /\ resp.calls # << >>)
    => /\ \A l \in LinkLayouts, q \in Quotes, v \in RelValues :
             resp.req.url = LinkTag(l, q, v)
             => /\ resp.rsp <=> QualifiesAsIcon(v)
                /\ v = "preload" => ~resp.rsp
                /\ v \in { "icon", "shortcut icon" } => resp.rsp
       /\ resp.req.url \in TagsWithoutRel => ~resp.rsp

\* a single-quoted, capitalised rel after the href
C23_Witness ==
    Returns("isIconLink", "<link href='/f.png' rel='Shortcut Icon' as='font'>", TRUE)

\* the overall resolution timeout of the documentation, in milliseconds
DocumentedTimeout == 1500

\* C24: on a cache miss handleHome invokes the resolver with an overall
\* deadline of 1.5 seconds.
C24_ResolverRunsUnder1500ms ==
    ret.state # "idle" => ret.timeout = DocumentedTimeout

\* C25: the per-request client timeout is strictly shorter than the overall
\* resolution deadline passed to the resolver.
C25_ClientTimeoutBelowDeadline ==
    ret.state # "idle" => httpClient.Timeout < ret.timeout

\* the results the range loop has received
Consumed == SubSeq(published, 1, Len(published) - Len(resultChan))

\* every goroutine of the run has ended
AllTasksEnded == \A i \in DOMAIN task : task[i] = "done"

\* the tasks whose probe succeeded
Succeeded == { i \in DOMAIN task : task[i] # "fetching" /\ held[i].result.Error = "" }

\* C26: in every run, however many candidates succeed, at most one published
\* result is consumed and it is the one returned; consuming it cancels the
\* scope; what the caller gets is that result or nil, never an error of a
\* task, and every task ends.
C26_AtMostOneConsumed ==
    /\ [](/\ Len(Consumed) <= 1
          /\ Len(Consumed) = 1
             => (ret.state = "returned" /\ ret.result = Consumed[1] /\ CtxDone)
          /\ ret.state = "returned"
             => /\ ret.result = NilResult \/ ret.result.Error = ""
                /\ ret.result # NilResult => Consumed = << ret.result >>)
    /\ [](ret.state = "returned" => <>AllTasksEnded)

\* two candidates succeeded, one was returned, every task ended
C26_Witness ==
    /\ Cardinality(Succeeded) = 2
    /\ Len(Consumed) = 1
    /\ ret.state = "returned"
    /\ AllTasksEnded

\* the results a run can publish
Publishable == { r \in ResolverOutcomes(RunGroups) : r # NilResult }

\* C27: a publish attempted on a cancelled scope is dropped: nothing is
\* placed on the completion queue after cancellation, and a result published
\* after the deadline elapsed is never returned.
C27_NoPublishAfterCancel ==
    /\ [][CtxDone => published' = published]_vars
    /\ \A r \in Publishable :
          []((ctx = "deadline" /\ \A k \in DOMAIN published : published[k] # r)
             => [](ret.result # r))

\* the priority group (1 is the highest) of the candidate a result is from
GroupOf(result) ==
    CHOOSE g \in DOMAIN urlGroups : \E k \in DOMAIN urlGroups[g] : urlGroups[g][k] = result.URL

\* C28: every candidate of every group has its task from the start of the
\* run, and a non-nil return is the result published first, whatever the
\* groups of the published results.
C28_FirstPublishedWinsAcrossGroups ==
    /\ ret.state # "idle"
       => /\ Len(task) = Len(Candidates)
          /\ \A g \in DOMAIN urlGroups : \A k \in DOMAIN urlGroups[g] :
                \E i \in DOMAIN task : Candidates[i] = urlGroups[g][k]
    /\ (ret.state = "returned" /\ ret.result # NilResult)
       => \A k \in DOMAIN published :
             /\ GroupOf(published[k]) \in DOMAIN urlGroups
             /\ k # 1 => ret.result # published[k]
             /\ k = 1 => ret.result = published[k]

\* a candidate of the second group published before one of the first group
\* and was returned
C28_Witness ==
    /\ ret.state = "returned"
    /\ Len(published) = 2
    /\ GroupOf(published[1]) = 2 /\ GroupOf(published[2]) = 1
    /\ ret.result = published[1]

\* C29: once the scope is cancelled, by the deadline or by the first success,
\* the resolver does not wait for outstanding tasks: while it has not
\* returned, its return can happen whatever the tasks still running do.
C29_ReturnDoesNotWaitForTasks ==
    (ret.state = "waiting" /\ CtxDone) => ENABLED (MainReceive \/ MainReturnNil)

\* the tasks whose probe has failed
Failed == { i \in DOMAIN task : task[i] # "fetching" /\ held[i].result.Error # "" }

\* what made the probe of task i fail
FailedBy(i) ==
    IF held[i].reply.net # "ok" THEN "request"
    ELSE IF held[i].reply.status # 200 THEN "status"
    ELSE IF ~OnAllowList(held[i].reply.ctype) THEN "content type"
    ELSE IF held[i].reply.readErr THEN "read"
    ELSE "scope"

\* C30: a probe that fails publishes nothing, and its failure changes
\* neither the queue, nor the scope, nor another task, nor what has been
\* returned; the caller gets a result or nil, never the error of a probe.
C30_FailedProbeIsSilent ==
    /\ [](\A i \in Failed :
            /\ task[i] = "done"
            /\ \A k \in DOMAIN published : published[k] # held[i].result)
    /\ [](\A k \in DOMAIN published : published[k].Error = "")
    /\ [](ret.state = "returned" => (ret.result = NilResult \/ ret.result.Error = ""))
    /\ [][\A i \in DOMAIN task :
            (task[i] = "fetching" /\ i \in Failed')
            => /\ resultChan' = resultChan /\ published' = published
               /\ ctx' = ctx /\ ret' = ret /\ chanClosed' = chanClosed
               /\ \A j \in DOMAIN task \ { i } : task'[j] = task[j] /\ held'[j] = held[j]]_vars

\* a request error, a 404 and a body read error in one run, which returned
\* nil with nothing published before the deadline
C30_Witness ==
    /\ Failed = { 1, 2, 3 }
    /\ { FailedBy(i) : i \in Failed } = { "request", "status", "read" }
    /\ published = << >>
    /\ ret.state = "returned" /\ ret.result = NilResult
    /\ ctx = "canceled"

\* a disallowed content type and a probe issued on the cancelled scope, while
\* another candidate succeeded and was returned
C30_WitnessContentType ==
    /\ \E i \in Failed : FailedBy(i) = "content type"
    /\ \E i \in Failed : held[i].result.Error = "request failed" /\ held[i].reply.net = "ok"
    /\ ret.state = "returned" /\ ret.result # NilResult

\* C31: a probe whose response body exceeds the 1 MiB read cap is a failed
\* probe: fetchFavicon returns an error for it, so that nothing is published
\* and no truncated bytes are returned or cached.
C31_OversizeProbeFails ==
    (resp.req.kind = "fetchFavicon" /\ resp.calls # << >>)
    => (resp.req.url.reply.body.len > MaxBodyBytes => resp.rsp.Error # "")

\* the (bytes, content type) pairs a Save for the host can carry
SavedPairs == Tabulated({ << d, { << res.Data, res.ContentType >> : res \in OutcomesOf[d] \ { NilResult } } >> : d \in Domains })

\* C32: with requests for one host interleaved, the host has at most one row
\* and it is the whole pair of one Save; a Get that finds the host returns
\* that row's pair, never bytes of one Save with the content type of another;
\* and each Save leaves the host's row holding exactly its own pair, so that
\* the row is the pair of the Save that ran last.
C32_GetSeesOneWholeSave ==
    /\ [](\A d \in Domains :
            /\ Cardinality(RowsOf(favicons, d)) <= 1
            /\ \A r \in RowsOf(favicons, d) : << r.data, r.content_type >> \in SavedPairs[d])
    /\ [](( resp.req.kind = "home" /\ resp.calls = << "Get" >> /\ resp.rsp.status = 200 )
          => << resp.rsp.body, Header(resp.rsp, "Content-Type") >> \in SavedPairs[resp.domain])
    /\ [][ \A req \in BagToSet(inflight) :
             \A res \in OutcomesOf[CanonicalHost(req.url)] \ { NilResult } :
               HomeResolve(req, res, FALSE, FALSE)
               => \E r \in favicons' :
                     /\ RowsOf(favicons', CanonicalHost(req.url)) = { r }
                     /\ << r.data, r.content_type >> = << res.Data, res.ContentType >> ]_vars

\* two requests for a.io were with the resolver together; one has saved its
\* PNG while the other, which will save after it, is still with the resolver
C32_Witness ==
    /\ \E req \in BagToSet(inflight) : CanonicalHost(req.url) = "a.io"
    /\ resp.req.kind = "home" /\ resp.domain = "a.io"
    /\ resp.calls = << "Get", "fetchFaviconsParallel", "Save" >>
    /\ \E r \in RowsOf(favicons, "a.io") :
          r.content_type = "image/png" /\ r.data = resp.rsp.body /\ r.created_at = now

\* C33: a request that finds a non-expired entry, answered HIT or 304, ends
\* in the lookup: only Get was called, no request went to the resolver, no
\* probe run was started and the store is as it was, the entry's bytes,
\* content type and expiry included.
C33_HitLeavesStoreAndResolverAlone ==
    [][ \A u \in RawURLs \ { "" }, m \in IfNoneMatches :
          (FreshRows(CanonicalHost(u)) # {} /\ HomeLookup(u, m, FALSE, FALSE))
          => /\ AnsweredAtLookup(u, m)
             /\ resp'.rsp.status \in { 200, 304 }
             /\ resp'.calls = << "Get" >>
             /\ favicons' = favicons
             /\ << urlGroups, task, held, resultChan, chanClosed, ctx, ret, published >>'
                  = << urlGroups, task, held, resultChan, chanClosed, ctx, ret, published >> ]_vars

\* a 304 twelve hours into the life of an entry that still expires 24 hours
\* after its save
C33_Witness ==
    /\ resp.req.kind = "home" /\ resp.rsp.status = 304
    /\ \E r \in RowsOf(favicons, resp.domain) :
          now = r.created_at + 12 /\ r.expires_at = r.created_at + TTLHours

\* C34: the completion queue is closed only after every probe task has
\* ended, so no task ever sends on the closed queue (which would panic),
\* also when the resolver returned before the tasks ended.
C34_ClosedOnlyAfterAllTasks ==
    /\ [](chanClosed => \A i \in DOMAIN task : task[i] = "done")
    /\ [](\A i \in DOMAIN task : task[i] # "panicked")
    /\ [][chanClosed => (published' = published /\ Len(resultChan') <= Len(resultChan))]_vars

\* the resolver returned the first result, a second task sent its result
\* after that, and then the queue was closed with that result still in it
C34_Witness ==
    /\ chanClosed
    /\ ret.state = "returned" /\ ret.result # NilResult
    /\ Len(published) = 2 /\ resultChan = << published[2] >>

\* C35: in every run, also one in which more candidates succeed than the
\* queue holds, after the resolver has returned every probe task ends (none
\* stays blocked on its publish) and the queue is closed.
C35_TasksEndAndQueueCloses ==
    /\ [](ret.state = "returned" => <>(AllTasksEnded /\ chanClosed))
    /\ []((AllTasksEnded /\ chanClosed) => [](AllTasksEnded /\ chanClosed))

\* more candidates succeeded than the queue holds: the queue was filled, the
\* task left over gave up its publish, every task has ended and the queue
\* is closed
C35_Witness ==
    /\ Cardinality(Succeeded) > ResultChanCap + 1
    /\ Len(published) = ResultChanCap + 1
    /\ ret.state = "returned"
    /\ AllTasksEnded /\ chanClosed

\* C36: extractDomain(extractDomain(x)) = extractDomain(x) for every x: a
\* cache key normalized again is the same key.
C36_ExtractDomainIdempotent ==
    (resp.req.kind = "extractDomain" /\ Len(resp.calls) = 2) => resp.rsp = resp.domain

\* an address with scheme, capitals, port and path, normalized twice
C36_Witness ==
    /\ resp.req.kind = "extractDomain" /\ Len(resp.calls) = 2
    /\ resp.req.url = "https://Example.com:8080/x"
    /\ resp.domain = "example.com" /\ resp.rsp = "example.com"

\* this step of handleHome leaves every row as it was
WritesNothing == favicons' = favicons

\* this step saved res under host and touched no row of another host
WritesOnly(host, res) ==
    /\ RowsOf(favicons', host) = { Row(host, res.Data, res.ContentType, now) }
    /\ \A d \in Domains \ { host } : RowsOf(favicons', d) = RowsOf(favicons, d)

\* handleHome writes only after a non-nil result, that result under the
\* request's host; stillUncached: what holds of the host after a DEFAULT
HomeWritesOnlyItsResult(stillUncached(_)) ==
    /\ \A u \in RawURLs, m \in IfNoneMatches : HomeLookup(u, m, FALSE, FALSE) => WritesNothing
    /\ \A req \in BagToSet(inflight) :
          \A res \in OutcomesOf[CanonicalHost(req.url)] :
            HomeResolve(req, res, FALSE, FALSE)
            => IF res = NilResult
               THEN /\ Header(resp'.rsp, "X-Cache") = "DEFAULT"
                    /\ WritesNothing
                    /\ stillUncached(CanonicalHost(req.url))
               ELSE WritesOnly(CanonicalHost(req.url), res)

\* no fresh row for the host after the step
UncachedAfter(host) == { r \in RowsOf(favicons', host) : r.expires_at > now' } = {}

\* after the step the host has the fresh rows it had before, none or those
\* another request saved
AsCachedAsBefore(host) == FreshRows(host)' = FreshRows(host)

\* C37 as stated: handleHome writes to the store only in the miss branch
\* after a non-nil result, exactly that result under the request's canonical
\* host; the default icon is never persisted, no other host's row is touched,
\* and after a DEFAULT response the host is still uncached.
C37_DefaultLeavesHostUncached ==
    /\ [](\A r \in favicons : r.data # DefaultIcon)
    /\ [][HomeWritesOnlyItsResult(UncachedAfter)]_vars

\* C37, amended: as C37, except that after a DEFAULT response the host is
\* cached or not as it was when the resolver returned: still uncached unless
\* another request for the host saved a result in the meantime.
C37_DefaultLeavesStoreAsItWas ==
    /\ [](\A r \in favicons : r.data # DefaultIcon)
    /\ [][HomeWritesOnlyItsResult(AsCachedAsBefore)]_vars

\* a DEFAULT answer for a.io, which has no row, while b.io keeps its row
C37_Witness ==
    /\ resp.req.kind = "home" /\ resp.domain = "a.io"
    /\ Header(resp.rsp, "X-Cache") = "DEFAULT"
    /\ RowsOf(favicons, "a.io") = {}
    /\ FreshRows("b.io") # {}

\* Get of the row's host returns the row
Gettable(r) == RepoGet(favicons, r.domain, now, FALSE) = Found(r.data, r.content_type)

\* a CleanupExpired run now would delete the row
Deletable(r) == r \notin RepoCleanupExpired(favicons, now)

\* C38: at every instant a row written by Save is either returned by Get or
\* deletable by CleanupExpired, never both and never neither, so a run of
\* CleanupExpired changes the result of Get for no host.
C38_CleanupNeverChangesGet ==
    /\ [](\A r \in favicons : Gettable(r) <=> ~Deletable(r))
    /\ [](\A h \in Domains :
            RepoGet(RepoCleanupExpired(favicons, now), h, now, FALSE) = RepoGet(favicons, h, now, FALSE))
    /\ [][CleanupExpiredCall
            => \A h \in Domains : RepoGet(favicons', h, now', FALSE) = RepoGet(favicons, h, now, FALSE)]_vars

\* a Get at the very hour the host's row expires, before any cleanup: not
\* found, with the row still in the table
C38_Witness ==
    /\ resp.req.kind = "Get" /\ resp.rsp = NotFound
    /\ \E r \in RowsOf(favicons, resp.domain) : r.expires_at = now

\* "fav-<host>" in quotes, per host
HostTag == Tabulated({ << d, "\"fav-" \o d \o "\"" >> : d \in Domains })

\* C39: the ETag of a HIT is "fav-<host>" for the canonical host of the
\* request, whatever bytes and content type are cached for the host at the
\* time, and it is the tag of no other host.
C39_ETagIsFunctionOfHost ==
    (resp.req.kind = "home" /\ Header(resp.rsp, "X-Cache") = "HIT")
    => /\ Header(resp.rsp, "ETag") = HostTag[resp.domain]
       /\ \A d \in Domains \ { resp.domain } : Header(resp.rsp, "ETag") # HostTag[d]

\* a HIT for a.io serving the PNG that a second Save, at hour 24, put in
\* the place of what was cached before
C39_Witness ==
    /\ resp.req.kind = "home" /\ Header(resp.rsp, "X-Cache") = "HIT"
    /\ resp.domain = "a.io" /\ Header(resp.rsp, "ETag") = "\"fav-a.io\""
    /\ \E r \in RowsOf(favicons, "a.io") :
          r.created_at = 24 /\ r.content_type = "image/png" /\ r.data = resp.rsp.body

\* C40: resizeImage returns at most as many bytes as it was given, and every
\* result fetchFavicon returns without error, which is what a probe
\* publishes and the handler saves, has at most 1 MiB of data and a
\* content type on the allow-list of isImage.
C40_ResultsAreBoundedImages ==
    /\ (resp.req.kind = "resizeImage" /\ resp.calls # << >>)
       => resp.rsp.data.len <= resp.req.url.data.len
    /\ (resp.req.kind = "fetchFavicon" /\ resp.calls # << >> /\ resp.rsp.Error = "")
       => /\ resp.rsp.Data.len <= 1048576
          /\ resp.rsp.Data.len <= resp.req.url.reply.body.len
          /\ OnAllowList(resp.rsp.ContentType)

\* a 32x32 PNG whose 16x16 re-encoding is one byte longer than the bytes
\* given: the bytes given are returned
C40_Witness ==
    /\ resp.req.kind = "resizeImage" /\ resp.calls = << "resizeImage" >>
    /\ resp.req.url.contentType = "image/png"
    /\ resp.req.url.data.w = 32 /\ resp.req.url.data.fmt = "png" /\ resp.req.url.data.whole
    /\ resp.req.url.data.enc > resp.req.url.data.len
    /\ resp.rsp.data = resp.req.url.data

\* a PNG one byte over the read cap, sent as IMAGE/PNG; q=1: the result
\* holds exactly 1 MiB
C40_WitnessAtCap ==
    /\ resp.req.kind = "fetchFavicon" /\ resp.calls # << >>
    /\ resp.req.url.reply.body.len > 1048576
    /\ resp.req.url.reply.ctype = "IMAGE/PNG; q=1"
    /\ resp.rsp.Error = "" /\ resp.rsp.Data.len = 1048576

====
